---- MODULE Spec2Model ----
(***************************************************************************)
(* A model of gh-issue-sync: the local mirror of issue files, the          *)
(* snapshots ("originals") of the last synchronised state, the remote      *)
(* issue service, and the commands that reconcile them (Pull, Push, New,   *)
(* Close, Reopen, Edit).                                                   *)
(*                                                                         *)
(* Texts (titles, bodies) are sequences of one-character strings, so that  *)
(* the reference pattern, the slug and the body normalisation are computed *)
(* character by character as the source does.  Issue numbers are strings;  *)
(* Chars gives their characters.                                           *)
(*                                                                         *)
(* Environment assumptions: local file-system calls succeed; a remote call *)
(* either fails without effect or succeeds; a successful fetch delivers    *)
(* the record as the remote holds it.                                      *)
(***************************************************************************)
EXTENDS Integers, Sequences, FiniteSets, TLC

\* ------------------------------------------------------------------ bounds

\* Largest permanent number the remote service hands out in a run.
MaxRemoteNum == 4
\* Command budgets of one behaviour.
MaxEdits == 2
MaxRemoteEdits == 1
MaxPulls == 3
MaxPushes == 2
MaxStateCmds == 1
\* Commands of every kind in one behaviour.
MaxCmds == 4

\* ------------------------------------------------------------ identifiers

TempIds == {"T1", "T10", "T2"}
PermIds == {"1", "2", "3", "4", "5", "6"}
AllIds == TempIds \cup PermIds

Chars(id) ==
  CASE id = "T1" -> <<"T", "1">>
    [] id = "T10" -> <<"T", "1", "0">>
    [] id = "T2" -> <<"T", "2">>
    [] id = "1" -> <<"1">>
    [] id = "2" -> <<"2">>
    [] id = "3" -> <<"3">>
    [] id = "4" -> <<"4">>
    [] id = "5" -> <<"5">>
    [] id = "6" -> <<"6">>
    [] OTHER -> <<>>

NumOf(id) ==
  CASE id = "1" -> 1 [] id = "2" -> 2 [] id = "3" -> 3 [] id = "4" -> 4
    [] id = "5" -> 5 [] id = "6" -> 6 [] OTHER -> 0

IdOfNum(n) == CHOOSE id \in PermIds : NumOf(id) = n

\* strings.HasPrefix(n, "T")
IsLocal(id) == Chars(id) # <<>> /\ Head(Chars(id)) = "T"

\* Byte order of the strings the model sorts (sort.Strings, os.ReadDir).
StrRank(s) ==
  CASE s = "" -> 0
    [] s = " bug" -> 1
    [] s = "1" -> 2 [] s = "2" -> 3 [] s = "3" -> 4 [] s = "4" -> 5 [] s = "5" -> 6
    [] s = "6" -> 7
    [] s = "T1" -> 8 [] s = "T10" -> 9 [] s = "T2" -> 10
    [] s = "bug" -> 11
    [] s = "urgent" -> 12
    [] OTHER -> 13

\* ------------------------------------------------------------------ texts

Digits == {"0", "1", "2", "3", "4", "5", "6"}
LowerLetters == {"a", "b", "t", "x"}
\* [a-zA-Z0-9]
Alnum == Digits \cup LowerLetters \cup {"T"}

ToLower(c) == IF c = "T" THEN "t" ELSE c

\* A variant that takes one character for the whole id.
AlnumRunOne(s) ==
  IF s = <<>> \/ Head(s) \notin Alnum THEN 0 ELSE 1

RECURSIVE AlnumRun(_)
AlnumRun(s) ==
  IF s = <<>> \/ Head(s) \notin Alnum THEN 0 ELSE 1 + AlnumRun(Tail(s))

\* localRefPattern `#(T[a-zA-Z0-9]+)` with ReplaceAllStringFunc: leftmost,
\* longest matches; a match whose id is a key of the mapping is replaced.
RECURSIVE ReplaceLocalRefs(_, _)
ReplaceLocalRefs(s, mapping) ==
  IF s = <<>> THEN <<>>
  ELSE IF /\ Head(s) = "#"
          /\ Len(s) >= 3
          /\ s[2] = "T"
          /\ AlnumRun(SubSeq(s, 3, Len(s))) >= 1
       THEN LET n == AlnumRun(SubSeq(s, 3, Len(s)))
                id == SubSeq(s, 2, 2 + n)
                rest == SubSeq(s, 3 + n, Len(s))
                hit == {k \in DOMAIN mapping : Chars(k) = id}
            IN  (IF hit # {}
                 THEN <<"#">> \o Chars(mapping[CHOOSE k \in hit : TRUE])
                 ELSE <<"#">> \o id) \o ReplaceLocalRefs(rest, mapping)
       ELSE <<Head(s)>> \o ReplaceLocalRefs(Tail(s), mapping)

\* strings.ReplaceAll(body, "\r\n", "\n")
RECURSIVE ReplaceCRLF(_)
ReplaceCRLF(s) ==
  IF s = <<>> THEN <<>>
  ELSE IF Len(s) >= 2 /\ s[1] = "\r" /\ s[2] = "\n"
       THEN <<"\n">> \o ReplaceCRLF(SubSeq(s, 3, Len(s)))
       ELSE <<Head(s)>> \o ReplaceCRLF(Tail(s))

\* strings.TrimLeft(body, "\n")
RECURSIVE TrimLeftNL(_)
TrimLeftNL(s) ==
  IF s # <<>> /\ Head(s) = "\n" THEN TrimLeftNL(Tail(s)) ELSE s

normalizeBody(body) ==
  LET b == TrimLeftNL(ReplaceCRLF(body))
  IN  IF b = <<>> THEN <<>>
      ELSE IF b[Len(b)] # "\n" THEN b \o <<"\n">> ELSE b

\* strings.TrimSpace on a text
RECURSIVE TrimLeftSpace(_)
TrimLeftSpace(s) ==
  IF s # <<>> /\ Head(s) \in {" ", "\n", "\r"} THEN TrimLeftSpace(Tail(s)) ELSE s

RECURSIVE TrimRightSpace(_)
TrimRightSpace(s) ==
  IF s # <<>> /\ s[Len(s)] \in {" ", "\n", "\r"}
  THEN TrimRightSpace(SubSeq(s, 1, Len(s) - 1)) ELSE s

TrimSpaceText(s) == TrimRightSpace(TrimLeftSpace(s))

\* slugRegex `[^a-z0-9]+` replaced by "-": every maximal run of other
\* characters becomes one dash.
RECURSIVE DashRuns(_, _)
DashRuns(s, inRun) ==
  IF s = <<>> THEN <<>>
  ELSE IF Head(s) \in Digits \cup LowerLetters
       THEN <<Head(s)>> \o DashRuns(Tail(s), FALSE)
       ELSE (IF inRun THEN <<>> ELSE <<"-">>) \o DashRuns(Tail(s), TRUE)

RECURSIVE TrimDash(_)
TrimDash(s) ==
  IF s # <<>> /\ Head(s) = "-" THEN TrimDash(Tail(s))
  ELSE IF s # <<>> /\ s[Len(s)] = "-" THEN TrimDash(SubSeq(s, 1, Len(s) - 1))
  ELSE s

Slugify(title) ==
  LET lower == [i \in 1..Len(TrimSpaceText(title)) |-> ToLower(TrimSpaceText(title)[i])]
  IN  IF lower = <<>> THEN <<>> ELSE TrimDash(DashRuns(lower, FALSE))

\* The slug part of FileName(number, title).
FileSlug(title) ==
  IF Slugify(title) = <<>> THEN <<"i", "s", "s", "u", "e">> ELSE Slugify(title)

\* ----------------------------------------------------------------- issues

\* strings.TrimSpace on a list item
TrimSpaceStr(l) == IF l = " bug" THEN "bug" ELSE l

SeqRange(s) == {s[i] : i \in 1..Len(s)}

RECURSIVE SortByRank(_)
SortByRank(S) ==
  IF S = {} THEN <<>>
  ELSE LET m == CHOOSE x \in S : \A y \in S : StrRank(x) <= StrRank(y)
       IN  <<m>> \o SortByRank(S \ {m})

\* sortedStrings and sortedRefs: trimmed, blanks dropped, deduplicated, sorted.
sortedStrings(items) ==
  SortByRank({TrimSpaceStr(x) : x \in SeqRange(items)} \ {""})

sortedRefs(items) == sortedStrings(items)

\* The zero value of issue.Issue.  parent and stateReason are pointers in the
\* source; nil is "" here, which is what normalizeOptional makes of it.
BlankIssue ==
  [number |-> "", title |-> <<>>, labels |-> <<>>, issueType |-> "",
   state |-> "", stateReason |-> "", parent |-> "", blockedBy |-> <<>>,
   blocks |-> <<>>, syncedAt |-> 0, body |-> <<>>]

Normalize(issue) ==
  [issue EXCEPT !.labels = sortedStrings(issue.labels),
                !.blockedBy = sortedRefs(issue.blockedBy),
                !.blocks = sortedRefs(issue.blocks),
                !.body = normalizeBody(issue.body)]

equalIssues(a0, b0, ignoreStateReason) ==
  LET a == Normalize(a0)
      b == Normalize(b0)
  IN  /\ a.number = b.number
      /\ a.title = b.title
      /\ a.labels = b.labels
      /\ a.issueType = b.issueType
      /\ a.state = b.state
      /\ (ignoreStateReason \/ a.stateReason = b.stateReason)
      /\ a.parent = b.parent
      /\ a.blockedBy = b.blockedBy
      /\ a.blocks = b.blocks
      /\ a.body = b.body

EqualIgnoringSyncedAt(a, b) == equalIssues(a, b, FALSE)

\* A variant that compares the state reason as well.
EqualForConflictCheckStrict(a, b) == equalIssues(a, b, FALSE)

EqualForConflictCheck(a, b) == equalIssues(a, b, TRUE)

\* ------------------------------------------------------ reference rewriting

applyMappingToRefs(refs, mapping) ==
  [i \in 1..Len(refs) |->
     IF refs[i] \in DOMAIN mapping THEN mapping[refs[i]] ELSE refs[i]]

\* The issue applyMapping leaves behind.
applyMappingIssue(issue, mapping) ==
  [issue EXCEPT
     !.body = ReplaceLocalRefs(issue.body, mapping),
     !.title = ReplaceLocalRefs(issue.title, mapping),
     !.parent = IF issue.parent # "" /\ issue.parent \in DOMAIN mapping
                THEN mapping[issue.parent] ELSE issue.parent,
     !.blockedBy = applyMappingToRefs(issue.blockedBy, mapping),
     !.blocks = applyMappingToRefs(issue.blocks, mapping)]

\* TRUE iff some match of the pattern in the text is a key of the mapping.
RECURSIVE HasMappedRef(_, _)
HasMappedRef(s, mapping) ==
  IF s = <<>> THEN FALSE
  ELSE IF /\ Head(s) = "#"
          /\ Len(s) >= 3
          /\ s[2] = "T"
          /\ AlnumRun(SubSeq(s, 3, Len(s))) >= 1
       THEN LET n == AlnumRun(SubSeq(s, 3, Len(s)))
            IN  \/ \E k \in DOMAIN mapping : Chars(k) = SubSeq(s, 2, 2 + n)
                \/ HasMappedRef(SubSeq(s, 3 + n, Len(s)), mapping)
       ELSE HasMappedRef(Tail(s), mapping)

\* The value applyMapping returns.
applyMappingChanged(issue, mapping) ==
  \/ HasMappedRef(issue.body, mapping)
  \/ ReplaceLocalRefs(issue.body, mapping) # issue.body
  \/ HasMappedRef(issue.title, mapping)
  \/ ReplaceLocalRefs(issue.title, mapping) # issue.title
  \/ (issue.parent # "" /\ issue.parent \in DOMAIN mapping)
  \/ \E i \in 1..Len(issue.blockedBy) : issue.blockedBy[i] \in DOMAIN mapping
  \/ \E i \in 1..Len(issue.blocks) : issue.blocks[i] \in DOMAIN mapping

\* -------------------------------------------------------------- local store

\* Render followed by the write: what a file holds.  The number is not part
\* of the content; it is carried by the file name.
Render(issue) ==
  [Normalize(issue) EXCEPT !.number = ""]

\* Parse: the body is normalised again; the lists are taken as written.
Parse(content) == [content EXCEPT !.body = normalizeBody(content.body)]

PathOf(f) == [dir |-> f.dir, num |-> f.num, slug |-> f.slug]

\* issue.PathFor(dir, number, title)
PathFor(dir, number, title) ==
  [dir |-> dir, num |-> number, slug |-> FileSlug(title)]

dirForState(state) == IF state = "closed" THEN "closed" ELSE "open"

\* issue.WriteFile(path, issue) on the set of files
WriteFile(fs, path, issue) ==
  {f \in fs : PathOf(f) # path}
    \cup {[dir |-> path.dir, num |-> path.num, slug |-> path.slug,
           content |-> Render(issue)]}

\* A variant that copies: the old name stays.
RenameCopy(fs, old, new) ==
  IF old = new \/ ~\E f \in fs : PathOf(f) = old THEN fs
  ELSE LET f == CHOOSE g \in fs : PathOf(g) = old
       IN  {g \in fs : PathOf(g) # new}
             \cup {[dir |-> new.dir, num |-> new.num, slug |-> new.slug,
                    content |-> f.content]}

\* os.Rename(old, new): the target, if any, is replaced.
Rename(fs, old, new) ==
  IF old = new \/ ~\E f \in fs : PathOf(f) = old THEN fs
  ELSE LET f == CHOOSE g \in fs : PathOf(g) = old
       IN  {g \in fs : PathOf(g) \notin {old, new}}
             \cup {[dir |-> new.dir, num |-> new.num, slug |-> new.slug,
                    content |-> f.content]}

\* One entry of loadLocalIssues: number from the file name, state from the
\* directory.
IssueFileOf(f) ==
  [Issue |-> [Parse(f.content) EXCEPT !.number = f.num, !.state = f.dir],
   Path |-> PathOf(f),
   State |-> f.dir]

DirRank(d) == IF d = "open" THEN 0 ELSE 1

RECURSIVE SortFiles(_)
SortFiles(S) ==
  IF S = {} THEN <<>>
  ELSE LET m == CHOOSE x \in S : \A y \in S :
                  \/ DirRank(x.dir) < DirRank(y.dir)
                  \/ /\ x.dir = y.dir
                     /\ StrRank(x.num) <= StrRank(y.num)
       IN  <<IssueFileOf(m)>> \o SortFiles(S \ {m})

\* loadLocalIssues: the open directory first, each in file-name order.
loadLocalIssues(fs) == SortFiles(fs)

\* An absent file or remote issue.
NoFile == [BlankIssue EXCEPT !.state = "none"]

readOriginalIssue(orig, number) ==
  IF number \in DOMAIN orig /\ orig[number] # NoFile
  THEN [Parse(orig[number]) EXCEPT !.number = number]
  ELSE BlankIssue

hasOriginalIssue(orig, number) ==
  number \in DOMAIN orig /\ orig[number] # NoFile

writeOriginalIssue(orig, issue) ==
  [orig EXCEPT ![issue.number] = Render(issue)]

\* ------------------------------------------------------------------- state

VARIABLES
  files,          \* the issue files of the open and closed directories
  originals,      \* the snapshots, by number (NoFile when absent)
  remote,         \* the remote service's issues, by number (NoFile when absent)
  hasLastFullPull,\* config: sync.last_full_pull is set
  changedSince,   \* remote numbers updated since sync.last_full_pull
  usedTemps,      \* temporary ids handed out so far
  createdFor,     \* per temporary id, the remote numbers created for its record
  createRequests, \* per temporary id, the create requests issued so far
  last,           \* the latest command, its options and what it reported
  budget,         \* commands run so far, by kind
  probe,          \* applyMapping on its own: input, mapping, output
  merge,          \* ThreeWayMerge on its own: base, local, remote, result
  trip,           \* Render and Parse on their own: issue, file, parsed issue
  fetch,          \* the fetch tasks of one Pull and its main flow
  catalog,        \* the label and milestone caches, and the remote catalogs
  compare,        \* the equality checks and diffs on their own: operands, results
  pc,             \* per process, where its command stands
  cmdOf,          \* per process, the command it runs
  lockHolder,     \* the process holding the advisory lock (0: free)
  exitOf          \* per process, how its last command returned

storeVars == <<files, originals, remote, hasLastFullPull, changedSince,
               usedTemps, createdFor, createRequests, last, budget>>

lockVars == <<pc, cmdOf, lockHolder, exitOf>>

auxVars == <<merge, trip, fetch, catalog, compare>>

NoMapping == [t \in {} |-> ""]

\* What a command reports: conflicts and unchanged ids, the numbers whose
\* issue file or snapshot it wrote, the remote calls it made, the warnings it
\* printed (what failed, for which id), the remote steps whose transport
\* failed, the state and edit calls of a Push in the order they were sent, the
\* mapping of a Push.
Report(cmd, opts) ==
  [cmd |-> cmd, opts |-> opts, err |-> FALSE, conflicts |-> {},
   unchanged |-> {}, written |-> {}, restored |-> {}, calls |-> {},
   warnings |-> {}, failed |-> {}, log |-> <<>>, mapping |-> NoMapping]

FileNums(fs) == {f.num : f \in fs}

RemoteNums(r) == {n \in DOMAIN r : r[n] # NoFile}

\* The issue a fetch of number n delivers.
RemoteIssue(r, n) == [r[n] EXCEPT !.number = n, !.syncedAt = 0]

TextA == <<"a">>
TextB == <<"b">>
TextX == <<"x">>
\* "#T1 #T10\n": a reference to T1 and one to the id that begins with it
RefBody == <<"#", "T", "1", " ", "#", "T", "1", "0", "\n">>

InitRemote ==
  [n \in PermIds |->
     IF n = "1"
     THEN [BlankIssue EXCEPT !.title = TextA, !.state = "open",
                             !.labels = <<"bug">>, !.body = <<"x">>]
     ELSE IF n = "2"
     THEN [BlankIssue EXCEPT !.title = TextB, !.state = "open", !.parent = "1"]
     ELSE NoFile]

Procs == {1, 2}

\* The store before any command, no process running.
InitStore ==
  /\ files = {}
  /\ originals = [n \in AllIds |-> NoFile]
  /\ remote = InitRemote
  /\ hasLastFullPull = FALSE
  /\ changedSince = {}
  /\ usedTemps = {}
  /\ createdFor = [t \in TempIds |-> {}]
  /\ createRequests = [t \in TempIds |-> 0]
  /\ last = Report("init", <<>>)
  /\ budget = [edits |-> 0, remoteEdits |-> 0, pulls |-> 0, pushes |-> 0,
               stateCmds |-> 0]

InitLock ==
  /\ pc = [p \in Procs |-> "idle"]
  /\ cmdOf = [p \in Procs |-> ""]
  /\ lockHolder = 0
  /\ exitOf = [p \in Procs |-> ""]

NoProbe ==
  [in |-> BlankIssue, mapping |-> NoMapping, out |-> BlankIssue,
   changed |-> FALSE, applied |-> FALSE]

\* ThreeWayMerge, Render and the fetch tasks not yet called.
NoMerge == [done |-> FALSE]

NoTrip == [stage |-> "none"]

NoFetch == [main |-> "none"]

NoCatalog == [started |-> FALSE]

NoCompare == [done |-> FALSE]

InitAux ==
  /\ merge = NoMerge
  /\ trip = NoTrip
  /\ fetch = NoFetch
  /\ catalog = NoCatalog
  /\ compare = NoCompare

Init ==
  /\ InitStore
  /\ InitLock
  /\ InitAux
  /\ probe = NoProbe

\* Commands run so far.
Steps ==
  budget.edits + budget.remoteEdits + budget.pulls + budget.pushes
    + budget.stateCmds + Cardinality(usedTemps)

\* findIssueByNumber: the first file of that number in load order.
findIssueByNumber(fs, number) ==
  LET all == loadLocalIssues(fs)
      idx == {i \in 1..Len(all) : all[i].Issue.number = number}
  IN  all[CHOOSE i \in idx : \A j \in idx : i <= j]

\* ----------------------------------------------------------------- NewIssue

NewIssue(id, title) ==
  /\ id \in TempIds \ usedTemps
  /\ Steps < MaxCmds
  /\ Cardinality(RemoteNums(remote)) + Cardinality(usedTemps) < MaxRemoteNum
  /\ TrimSpaceText(title) # <<>>
  /\ LET newIssue == [BlankIssue EXCEPT !.number = id,
                                        !.title = TrimSpaceText(title),
                                        !.state = "open"]
         path == PathFor("open", id, newIssue.title)
     IN  /\ files' = WriteFile(files, path, newIssue)
         /\ last' = [Report("new", <<id>>) EXCEPT !.written = {id}]
  /\ usedTemps' = usedTemps \cup {id}
  /\ UNCHANGED <<originals, remote, hasLastFullPull, changedSince, createdFor,
                 createRequests, budget>>
  /\ UNCHANGED <<probe, auxVars, lockVars>>

\* --------------------------------------------------------------------- Edit

EditKinds == {"title", "refs", "parent", "labels"}

\* What the operator leaves in the editor.
Edited(number, content, kind) ==
  CASE kind = "title" ->
         [content EXCEPT !.title = IF content.title = TextB THEN TextA ELSE TextB]
    [] kind = "refs" -> [content EXCEPT !.body = RefBody]
    [] kind = "parent" ->
         [content EXCEPT !.parent = IF number = "T10" THEN "T1" ELSE "T10"]
    [] kind = "labels" ->
         [content EXCEPT !.labels = IF content.labels = <<"bug">>
                                    THEN <<" bug", "bug">>
                                    ELSE <<"urgent", " bug", "bug">>]

Edit(number, kind) ==
  /\ budget.edits < MaxEdits
  /\ Steps < MaxCmds
  /\ number \in FileNums(files)
  /\ kind \in EditKinds
  /\ LET file == findIssueByNumber(files, number)
         old == CHOOSE f \in files : PathOf(f) = file.Path
         saved == (files \ {old})
                    \cup {[old EXCEPT !.content = Edited(number, old.content, kind)]}
         edited == Parse(Edited(number, old.content, kind))
         newPath == PathFor(dirForState(file.State), file.Issue.number,
                            TrimSpaceText(edited.title))
     IN  /\ Edited(number, old.content, kind) # old.content
         /\ TrimSpaceText(edited.title) # <<>>
         /\ files' = Rename(saved, file.Path, newPath)
  /\ last' = [Report("edit", <<number, kind>>) EXCEPT !.written = {number}]
  /\ budget' = [budget EXCEPT !.edits = @ + 1]
  /\ UNCHANGED <<originals, remote, hasLastFullPull, changedSince, usedTemps,
                 createdFor, createRequests>>
  /\ UNCHANGED <<probe, auxVars, lockVars>>

\* ------------------------------------------------------------ Close, Reopen

CloseReasons == {"", "not_planned"}

\* The files Close(number, reason) leaves.
CloseFiles(fs, number, reason) ==
  LET file == findIssueByNumber(fs, number)
      closed == [file.Issue EXCEPT !.state = "closed", !.stateReason = reason]
      newPath == PathFor("closed", closed.number, closed.title)
  IN  IF file.State = "closed" THEN fs
      ELSE WriteFile(Rename(fs, file.Path, newPath), newPath, closed)

Close(number, reason) ==
  /\ budget.stateCmds < MaxStateCmds
  /\ Steps < MaxCmds
  /\ number \in FileNums(files)
  /\ reason \in CloseReasons
  /\ files' = CloseFiles(files, number, reason)
  /\ last' = [Report("close", <<number>>) EXCEPT
                !.written = IF files' = files THEN {} ELSE {number}]
  /\ budget' = [budget EXCEPT !.stateCmds = @ + 1]
  /\ UNCHANGED <<originals, remote, hasLastFullPull, changedSince, usedTemps,
                 createdFor, createRequests>>
  /\ UNCHANGED <<probe, auxVars, lockVars>>

\* The operator deletes the issue file of number from the mirror.
Remove(number) ==
  /\ budget.stateCmds < MaxStateCmds
  /\ Steps < MaxCmds
  /\ number \in FileNums(files)
  /\ files' = {f \in files : f.num # number}
  /\ last' = Report("remove", <<number>>)
  /\ budget' = [budget EXCEPT !.stateCmds = @ + 1]
  /\ UNCHANGED <<originals, remote, hasLastFullPull, changedSince, usedTemps,
                 createdFor, createRequests>>
  /\ UNCHANGED <<probe, auxVars, lockVars>>

\* The files Reopen(number) leaves.
\* A variant that keeps the state reason.
ReopenFilesKeepsReason(fs, number) ==
  LET file == findIssueByNumber(fs, number)
      opened == [file.Issue EXCEPT !.state = "open"]
      newPath == PathFor("open", opened.number, opened.title)
  IN  IF file.State = "open" THEN fs
      ELSE WriteFile(Rename(fs, file.Path, newPath), newPath, opened)

ReopenFiles(fs, number) ==
  LET file == findIssueByNumber(fs, number)
      opened == [file.Issue EXCEPT !.state = "open", !.stateReason = ""]
      newPath == PathFor("open", opened.number, opened.title)
  IN  IF file.State = "open" THEN fs
      ELSE WriteFile(Rename(fs, file.Path, newPath), newPath, opened)

Reopen(number) ==
  /\ budget.stateCmds < MaxStateCmds
  /\ Steps < MaxCmds
  /\ number \in FileNums(files)
  /\ files' = ReopenFiles(files, number)
  /\ last' = [Report("reopen", <<number>>) EXCEPT
                !.written = IF files' = files THEN {} ELSE {number}]
  /\ budget' = [budget EXCEPT !.stateCmds = @ + 1]
  /\ UNCHANGED <<originals, remote, hasLastFullPull, changedSince, usedTemps,
                 createdFor, createRequests>>
  /\ UNCHANGED <<probe, auxVars, lockVars>>

\* --------------------------------------------------------------------- Pull

\* A variant whose gate is open when force is absent.
PullSkipsInverted(hasLocal, localChanged, force) ==
  hasLocal /\ localChanged /\ force

\* A variant that does not look at force.
PullSkipsForced(hasLocal, localChanged, force) ==
  hasLocal /\ localChanged

\* The conflict gate of Pull's loop.
PullSkips(hasLocal, localChanged, force) ==
  hasLocal /\ localChanged /\ ~force

\* A variant that takes a record without a snapshot for unchanged and
\* rewrites the others.
PullUnchangedInverted(hasOriginal, contentChanged, pathChanged) ==
  ~hasOriginal /\ ~contentChanged /\ ~pathChanged

\* A variant that looks at the path only.
PullUnchangedByPath(hasOriginal, contentChanged, pathChanged) ==
  hasOriginal /\ ~pathChanged

\* The test that classifies a fetched record as unchanged.
PullUnchanged(hasOriginal, contentChanged, pathChanged) ==
  hasOriginal /\ ~contentChanged /\ ~pathChanged

\* The reconciliation of one fetched record: the body of Pull's loop.
\* st is [files, originals, rep]; localIssues was loaded before the loop.
PullRecord(st, fetched, localIssues, force) ==
  LET rem == [fetched EXCEPT !.syncedAt = 1]
      idx == {i \in 1..Len(localIssues) : localIssues[i].Issue.number = rem.number}
      hasLocal == idx # {}
      local == localIssues[CHOOSE i \in idx : \A j \in idx : j <= i]
      hasOriginal == hasOriginalIssue(st.originals, rem.number)
      original == readOriginalIssue(st.originals, rem.number)
      localChanged ==
        hasLocal /\ (~hasOriginal \/ ~EqualIgnoringSyncedAt(local.Issue, original))
      targetDir == IF rem.state = "closed" THEN "closed" ELSE "open"
      newPath == PathFor(targetDir, rem.number, rem.title)
      contentChanged == ~hasLocal \/ ~EqualIgnoringSyncedAt(local.Issue, rem)
      pathChanged == hasLocal /\ local.Path # newPath
  IN  IF PullSkips(hasLocal, localChanged, force)
      THEN [st EXCEPT !.rep.conflicts = @ \cup {rem.number}]
      ELSE IF PullUnchanged(hasOriginal, contentChanged, pathChanged)
      THEN [st EXCEPT !.rep.unchanged = @ \cup {rem.number}]
      ELSE [st EXCEPT
              !.files = WriteFile(IF hasLocal
                                  THEN Rename(st.files, local.Path, newPath)
                                  ELSE st.files,
                                  newPath, rem),
              !.originals = writeOriginalIssue(st.originals, rem),
              !.rep.written = @ \cup {rem.number}]

\* A variant of the loop that gives up at the first conflict.
RECURSIVE PullLoopStops(_, _, _, _)
PullLoopStops(st, fetched, localIssues, force) ==
  IF fetched = <<>> THEN st
  ELSE LET next == PullRecord(st, Head(fetched), localIssues, force)
       IN  IF next.rep.conflicts # st.rep.conflicts
           THEN [next EXCEPT !.rep.err = TRUE]
           ELSE PullLoopStops(next, Tail(fetched), localIssues, force)

RECURSIVE PullLoop(_, _, _, _)
PullLoop(st, fetched, localIssues, force) ==
  IF fetched = <<>> THEN st
  ELSE PullLoop(PullRecord(st, Head(fetched), localIssues, force),
                Tail(fetched), localIssues, force)

\* restoreDeletedIssues: snapshots without a local file, temporary ids
\* skipped, are fetched and written again.
RECURSIVE RestoreLoop(_, _, _)
RestoreLoop(st, orphaned, r) ==
  IF orphaned = <<>> THEN st
  ELSE LET number == Head(orphaned)
           rem == [RemoteIssue(r, number) EXCEPT !.syncedAt = 1]
           targetDir == IF rem.state = "closed" THEN "closed" ELSE "open"
           newPath == PathFor(targetDir, rem.number, rem.title)
       IN  IF number \notin RemoteNums(r)
           THEN RestoreLoop(st, Tail(orphaned), r)
           ELSE RestoreLoop(
                  [st EXCEPT !.files = WriteFile(st.files, newPath, rem),
                             !.originals = writeOriginalIssue(st.originals, rem),
                             !.rep.written = @ \cup {number},
                             !.rep.restored = @ \cup {number}],
                  Tail(orphaned), r)

restoreDeletedIssues(st, r) ==
  LET orphaned == {n \in DOMAIN st.originals :
                     /\ st.originals[n] # NoFile
                     /\ ~IsLocal(n)
                     /\ n \notin FileNums(st.files)}
  IN  RestoreLoop(st, SortByRank(orphaned), r)

PullModes == {"plain", "full", "all", "args"}

\* --label bug: the listing is restricted to the records that carry the label.
LabelMode == "label"

\* The numbers the listing of an unscoped Pull delivers.
ListedNums(r, mode, isIncremental) ==
  {n \in RemoteNums(r) :
     /\ (mode = "all" \/ isIncremental \/ r[n].state = "open")
     /\ (isIncremental => n \in changedSince)
     /\ (mode = LabelMode => "bug" \in SeqRange(r[n].labels))}

\* The records a Pull got, in number order.
PullFetched(r, nums) ==
  [i \in 1..Cardinality(nums) |-> RemoteIssue(r, SortByRank(nums)[i])]

PullRestore(st, r, mode) ==
  IF mode = "args" THEN st ELSE restoreDeletedIssues(st, r)

\* The loop over the fetched records, then the restore of deleted files.
PullRun(fs, orig, r, opts, fetchedNums, failed) ==
  PullRestore(
    PullLoop([files |-> fs, originals |-> orig,
              rep |-> [Report("pull", opts) EXCEPT !.failed = failed]],
             PullFetched(r, fetchedNums), loadLocalIssues(fs), opts[2]),
    r, opts[1])

PullStore(res) ==
  /\ files' = res.files
  /\ originals' = res.originals
  /\ last' = res.rep

Pull(mode, force, arg, fails, batchFails) ==
  /\ budget.pulls < MaxPulls
  /\ Steps < MaxCmds
  /\ mode \in PullModes \cup {LabelMode}
  /\ (mode = "args") = (arg # "")
  /\ arg \in RemoteNums(remote) \cup {""}
  /\ budget' = [budget EXCEPT !.pulls = @ + 1]
  /\ LET opts == <<mode, force, arg>>
         isIncremental == hasLastFullPull /\ mode = "plain"
         toFetch == IF mode \in {"plain", "full", LabelMode} /\ ~isIncremental
                    THEN {n \in FileNums(files) : ~IsLocal(n)} ELSE {}
         listed == ListedNums(remote, mode, isIncremental)
         batch == IF batchFails THEN {}
                  ELSE {n \in toFetch : n \in RemoteNums(remote)} \ listed
         fetchedNums == IF mode = "args" THEN {arg} ELSE listed \cup batch
     IN  /\ batchFails => (toFetch # {} /\ ~fails /\ ~(isIncremental /\ listed = {}))
         /\ IF fails
            THEN \* the listing, or GetIssue of an argument, failed
                 /\ last' = [Report("pull", opts) EXCEPT !.err = TRUE, !.failed = {"list"}]
                 /\ UNCHANGED <<files, originals, hasLastFullPull, changedSince>>
            ELSE IF isIncremental /\ listed = {}
            THEN \* nothing changed since the last pull: the fast path
                 /\ last' = Report("pull", opts)
                 /\ hasLastFullPull' = TRUE
                 /\ changedSince' = {}
                 /\ UNCHANGED <<files, originals>>
            ELSE \* a failed batched lookup is dropped: batchRes.err is only tested
                 /\ PullStore(PullRun(files, originals, remote, opts, fetchedNums,
                                      IF batchFails THEN {"batch"} ELSE {}))
                 /\ hasLastFullPull' = (hasLastFullPull \/ mode # "args")
                 /\ changedSince' = IF mode = "args" THEN changedSince ELSE {}
  /\ UNCHANGED <<remote, usedTemps, createdFor, createRequests>>
  /\ UNCHANGED <<probe, auxVars, lockVars>>

\* ---------------------------------------------------- third-party remote edit

RemoteEditKinds == {"title", "close", "labels"}

RemoteEdited(issue, kind) ==
  CASE kind = "title" ->
         [issue EXCEPT !.title = IF issue.title = TextX THEN TextA ELSE TextX]
    [] kind = "close" ->
         IF issue.state = "open"
         THEN [issue EXCEPT !.state = "closed", !.stateReason = "COMPLETED"]
         ELSE [issue EXCEPT !.state = "open", !.stateReason = "REOPENED"]
    [] kind = "labels" -> [issue EXCEPT !.labels = <<"urgent">>]

RemoteEdit(number, kind) ==
  /\ budget.remoteEdits < MaxRemoteEdits
  /\ Steps < MaxCmds
  /\ number \in RemoteNums(remote)
  /\ kind \in RemoteEditKinds
  /\ RemoteEdited(remote[number], kind) # remote[number]
  /\ remote' = [remote EXCEPT ![number] = RemoteEdited(@, kind)]
  /\ changedSince' = changedSince \cup {number}
  /\ last' = Report("remote", <<number, kind>>)
  /\ budget' = [budget EXCEPT !.remoteEdits = @ + 1]
  /\ UNCHANGED <<files, originals, hasLastFullPull, usedTemps, createdFor,
                 createRequests>>
  /\ UNCHANGED <<probe, auxVars, lockVars>>

\* --------------------------------------------------------------------- Push

\* The number the service gives the next created issue.
NextNumber(r) == IdOfNum(Cardinality(RemoteNums(r)) + 1)

\* client.CreateIssue: title, body and labels are sent; the issue is open.
CreateIssue(r, issue) ==
  [r EXCEPT ![NextNumber(r)] =
     [BlankIssue EXCEPT !.title = issue.title, !.body = issue.body,
                        !.labels = sortedStrings(issue.labels),
                        !.state = "open"]]

\* client.CloseIssue / client.ReopenIssue as the service records them.
CloseIssue(r, number, reason) ==
  [r EXCEPT ![number].state = "closed",
            ![number].stateReason =
               IF reason = "not_planned" THEN "NOT_PLANNED" ELSE "COMPLETED"]

ReopenIssue(r, number) ==
  [r EXCEPT ![number].state = "open", ![number].stateReason = "REOPENED"]

\* filterIssuesByArgs with at most one id argument ("" is no argument).
filterIssuesByArgs(issues, arg) ==
  IF arg = "" THEN issues
  ELSE SelectSeq(issues, LAMBDA item : item.Issue.number = arg)

\* diffStringSet: what to add and what to remove.
diffStringSet(old, new) ==
  [add |-> SeqRange(new) \ SeqRange(old), remove |-> SeqRange(old) \ SeqRange(new)]

\* diffIssue: the fields are compared as read, without Normalize.
diffIssue(original, local) ==
  [title |-> original.title # local.title,
   body |-> original.body # local.body,
   labels |-> diffStringSet(original.labels, local.labels),
   stateTransition |->
     IF original.state # "" /\ original.state # local.state
     THEN (IF local.state = "closed" THEN "close"
           ELSE IF local.state = "open" THEN "reopen" ELSE "")
     ELSE "",
   stateReason |-> IF original.stateReason # local.stateReason
                   THEN local.stateReason ELSE ""]

hasEdits(change) ==
  change.title \/ change.body \/ change.labels.add # {} \/ change.labels.remove # {}

\* client.SyncRelationships: the parent is set when it differs from the
\* remote one, blocked_by is made the set of the non-temporary local
\* references.  A target the service does not know makes the call fail.
\* (No record of this model carries a blocks list, so that part is a no-op.)
SyncRelationships(st, number, local, relFails) ==
  LET remoteParent == st.remote[number].parent
      localBlockedBy == {x \in SeqRange(local.blockedBy) : ~IsLocal(x)}
      remoteBlockedBy == SeqRange(st.remote[number].blockedBy)
      known(x) == x = "" \/ (x \in RemoteNums(st.remote) /\ x # number)
      writes == local.parent # remoteParent \/ localBlockedBy # remoteBlockedBy
      parentSet == IF known(local.parent) THEN local.parent ELSE remoteParent
      blockedSet == IF local.parent # remoteParent /\ ~known(local.parent)
                    THEN remoteBlockedBy
                    ELSE {x \in localBlockedBy : known(x)}
                           \cup {x \in remoteBlockedBy \cap localBlockedBy : TRUE}
      refused == \/ local.parent # remoteParent /\ ~known(local.parent)
                 \/ \E x \in localBlockedBy \ remoteBlockedBy : ~known(x)
  IN  IF relFails THEN [st EXCEPT !.rep.warnings = @ \cup {<<"relationships", number>>}]
      ELSE IF ~writes THEN st
      ELSE [st EXCEPT
              !.rep.calls = @ \cup {<<"relationships", number>>},
              !.rep.warnings = IF refused
                               THEN @ \cup {<<"relationships", number>>} ELSE @,
              !.remote[number].parent = parentSet,
              !.remote[number].blockedBy = SortByRank(blockedSet),
              !.changed = @ \cup {number}]

\* A variant that keeps the file under its temporary name.
PushCreateKeepsName(st, item) ==
  LET oldNumber == item.Issue.number
      newNumber == NextNumber(st.remote)
      created == [item.Issue EXCEPT !.number = newNumber, !.syncedAt = 1]
      m == st.rep.mapping
  IN  [st EXCEPT
         !.remote = CreateIssue(st.remote, item.Issue),
         !.files = WriteFile(st.files, item.Path, created),
         !.originals = writeOriginalIssue(st.originals, created),
         !.createdFor[oldNumber] = @ \cup {newNumber},
         !.createRequests[oldNumber] = @ + 1,
         !.changed = @ \cup {newNumber},
         !.rep.mapping = [t \in DOMAIN m \cup {oldNumber} |->
                            IF t = oldNumber THEN newNumber ELSE m[t]],
         !.rep.calls = @ \cup {<<"create", oldNumber>>},
         !.rep.written = @ \cup {newNumber}]

\* One round of the creation loop: create, renumber, rename, write the file
\* and the snapshot.
PushCreate(st, item) ==
  LET oldNumber == item.Issue.number
      newNumber == NextNumber(st.remote)
      created == [item.Issue EXCEPT !.number = newNumber, !.syncedAt = 1]
      newPath == PathFor(dirForState(item.State), newNumber, created.title)
      m == st.rep.mapping
  IN  [st EXCEPT
         !.remote = CreateIssue(st.remote, item.Issue),
         !.files = WriteFile(Rename(st.files, item.Path, newPath), newPath, created),
         !.originals = writeOriginalIssue(st.originals, created),
         !.createdFor[oldNumber] = @ \cup {newNumber},
         !.createRequests[oldNumber] = @ + 1,
         !.changed = @ \cup {newNumber},
         !.rep.mapping = [t \in DOMAIN m \cup {oldNumber} |->
                            IF t = oldNumber THEN newNumber ELSE m[t]],
         !.rep.calls = @ \cup {<<"create", oldNumber>>},
         !.rep.written = @ \cup {newNumber}]

\* The creation loop; failAt is the round whose CreateIssue fails (0: none).
RECURSIVE PushCreateLoop(_, _, _)
PushCreateLoop(st, items, failAt) ==
  IF items = <<>> THEN st
  ELSE IF ~IsLocal(Head(items).Issue.number)
  THEN PushCreateLoop(st, Tail(items), failAt)
  ELSE IF Cardinality(DOMAIN st.rep.mapping) + 1 = failAt
  THEN [st EXCEPT !.rep.err = TRUE,
                  !.rep.failed = @ \cup {"create"},
                  !.createRequests[Head(items).Issue.number] = @ + 1,
                  !.rep.calls = @ \cup {<<"create", Head(items).Issue.number>>}]
  ELSE PushCreateLoop(PushCreate(st, Head(items)), Tail(items), failAt)

\* The files applyMapping changed are written back.
RECURSIVE PushApplyMapping(_, _, _)
PushApplyMapping(st, allIssues, mapping) ==
  IF allIssues = <<>> THEN st
  ELSE LET item == Head(allIssues)
       IN  PushApplyMapping(
             IF applyMappingChanged(item.Issue, mapping)
             THEN [st EXCEPT
                     !.files = WriteFile(st.files, item.Path,
                                         applyMappingIssue(item.Issue, mapping)),
                     !.rep.written = @ \cup {item.Issue.number}]
             ELSE st,
             Tail(allIssues), mapping)

\* Relationships of the newly created issues, once the mapping is applied.
RECURSIVE PushSyncCreated(_, _, _)
PushSyncCreated(st, items, relFails) ==
  IF items = <<>> THEN st
  ELSE LET item == Head(items)
           created == {st.rep.mapping[t] : t \in DOMAIN st.rep.mapping}
       IN  PushSyncCreated(
             IF item.Issue.number \in created
             THEN SyncRelationships(st, item.Issue.number, item.Issue, relFails)
             ELSE st,
             Tail(items), relFails)

\* A variant that takes every permanent record for changed.
PushPendingAll(st, items) ==
  SelectSeq(items, LAMBDA item : ~IsLocal(item.Issue.number))

\* Phase 1: the permanent records whose file differs from the snapshot.
PushPending(st, items) ==
  SelectSeq(items, LAMBDA item :
    /\ ~IsLocal(item.Issue.number)
    /\ \/ ~hasOriginalIssue(st.originals, item.Issue.number)
       \/ ~EqualIgnoringSyncedAt(item.Issue,
                                 readOriginalIssue(st.originals, item.Issue.number)))

PushUnchanged(st, items) ==
  {items[i].Issue.number : i \in {j \in 1..Len(items) :
     /\ ~IsLocal(items[j].Issue.number)
     /\ hasOriginalIssue(st.originals, items[j].Issue.number)
     /\ EqualIgnoringSyncedAt(items[j].Issue,
                              readOriginalIssue(st.originals, items[j].Issue.number))
     /\ items[j].Issue.number \notin
          {st.rep.mapping[t] : t \in DOMAIN st.rep.mapping}}}

\* A variant that leaves the state transitions out.
RECURSIVE PushDetectNoTransition(_, _, _, _)
PushDetectNoTransition(st, pending, fetched, stateFails) ==
  IF pending = <<>> THEN st
  ELSE LET item == Head(pending)
           numStr == item.Issue.number
           rem == RemoteIssue(fetched, numStr)
           hasOriginal == hasOriginalIssue(st.originals, numStr)
           original == readOriginalIssue(st.originals, numStr)
           baseline == IF hasOriginal THEN original ELSE rem
           change == diffIssue(baseline, item.Issue)
           transited ==
             IF change.stateTransition = "close"
             THEN [st EXCEPT !.remote = CloseIssue(st.remote, numStr, change.stateReason),
                             !.rep.calls = @ \cup {<<"close", numStr>>},
                             !.rep.log = Append(@, <<"close", numStr>>),
                             !.changed = @ \cup {numStr}]
             ELSE IF change.stateTransition = "reopen"
             THEN [st EXCEPT !.remote = ReopenIssue(st.remote, numStr),
                             !.rep.calls = @ \cup {<<"reopen", numStr>>},
                             !.rep.log = Append(@, <<"reopen", numStr>>),
                             !.changed = @ \cup {numStr}]
             ELSE st
       IN  IF numStr \notin RemoteNums(fetched)
           THEN PushDetectNoTransition([st EXCEPT !.rep.warnings = @ \cup {<<"missing", numStr>>}],
                           Tail(pending), fetched, stateFails)
           ELSE IF hasOriginal /\ ~EqualForConflictCheck(rem, original)
           THEN PushDetectNoTransition([st EXCEPT !.rep.conflicts = @ \cup {numStr}],
                           Tail(pending), fetched, stateFails)
           ELSE IF change.stateTransition # "" /\ stateFails
           THEN [st EXCEPT !.rep.err = TRUE,
                           !.rep.failed = @ \cup {"state"},
                           !.rep.log = Append(@, <<change.stateTransition, numStr>>),
                           !.rep.calls = @ \cup {<<change.stateTransition, numStr>>}]
           ELSE PushDetectNoTransition(
                  [st EXCEPT
                     !.updates = IF hasEdits(change)
                                 THEN Append(@, [Item |-> item, Change |-> change])
                                 ELSE @,
                     !.works = Append(@, [Item |-> item, Change |-> change])],
                  Tail(pending), fetched, stateFails)

\* Phase 3: conflict detection against the fetched records, the state
\* transitions, and the queue of updates.  A failing transition ends Push.
RECURSIVE PushDetect(_, _, _, _)
PushDetect(st, pending, fetched, stateFails) ==
  IF pending = <<>> THEN st
  ELSE LET item == Head(pending)
           numStr == item.Issue.number
           rem == RemoteIssue(fetched, numStr)
           hasOriginal == hasOriginalIssue(st.originals, numStr)
           original == readOriginalIssue(st.originals, numStr)
           baseline == IF hasOriginal THEN original ELSE rem
           change == diffIssue(baseline, item.Issue)
           transited ==
             IF change.stateTransition = "close"
             THEN [st EXCEPT !.remote = CloseIssue(st.remote, numStr, change.stateReason),
                             !.rep.calls = @ \cup {<<"close", numStr>>},
                             !.rep.log = Append(@, <<"close", numStr>>),
                             !.changed = @ \cup {numStr}]
             ELSE IF change.stateTransition = "reopen"
             THEN [st EXCEPT !.remote = ReopenIssue(st.remote, numStr),
                             !.rep.calls = @ \cup {<<"reopen", numStr>>},
                             !.rep.log = Append(@, <<"reopen", numStr>>),
                             !.changed = @ \cup {numStr}]
             ELSE st
       IN  IF numStr \notin RemoteNums(fetched)
           THEN PushDetect([st EXCEPT !.rep.warnings = @ \cup {<<"missing", numStr>>}],
                           Tail(pending), fetched, stateFails)
           ELSE IF hasOriginal /\ ~EqualForConflictCheck(rem, original)
           THEN PushDetect([st EXCEPT !.rep.conflicts = @ \cup {numStr}],
                           Tail(pending), fetched, stateFails)
           ELSE IF change.stateTransition # "" /\ stateFails
           THEN [st EXCEPT !.rep.err = TRUE,
                           !.rep.failed = @ \cup {"state"},
                           !.rep.log = Append(@, <<change.stateTransition, numStr>>),
                           !.rep.calls = @ \cup {<<change.stateTransition, numStr>>}]
           ELSE PushDetect(
                  [transited EXCEPT
                     !.updates = IF hasEdits(change)
                                 THEN Append(@, [Item |-> item, Change |-> change])
                                 ELSE @,
                     !.works = Append(@, [Item |-> item, Change |-> change])],
                  Tail(pending), fetched, stateFails)

\* Phase 4: client.BatchEditIssues; with itemFails every update of the batch
\* is answered with an error of its own.
RECURSIVE PushBatchEdit(_, _, _)
PushBatchEdit(st, updates, itemFails) ==
  IF updates = <<>> THEN st
  ELSE LET u == Head(updates)
           numStr == u.Item.Issue.number
           local == u.Item.Issue
           edited == [st.remote[numStr] EXCEPT
                        !.title = IF u.Change.title THEN local.title ELSE @,
                        !.body = IF u.Change.body THEN local.body ELSE @,
                        !.labels = IF u.Change.labels.add # {}
                                      \/ u.Change.labels.remove # {}
                                   THEN sortedStrings(local.labels) ELSE @]
       IN  PushBatchEdit(
             [st EXCEPT
                !.remote[numStr] = IF itemFails THEN @ ELSE edited,
                !.changed = IF itemFails THEN @ ELSE @ \cup {numStr},
                !.rep.warnings = IF itemFails THEN @ \cup {<<"edit", numStr>>} ELSE @,
                !.rep.log = Append(@, <<"edit", numStr>>),
                !.rep.calls = @ \cup {<<"edit", numStr>>}],
             Tail(updates), itemFails)

\* A variant that writes the file and leaves the snapshot as it was.
RECURSIVE PushFinalizeNoSnapshot(_, _, _)
PushFinalizeNoSnapshot(st, works, relFails) ==
  IF works = <<>> THEN st
  ELSE LET item == Head(works).Item
           local == [item.Issue EXCEPT !.syncedAt = 1]
           synced == SyncRelationships(st, local.number, local, relFails)
       IN  PushFinalizeNoSnapshot(
             [synced EXCEPT
                !.files = WriteFile(synced.files, item.Path, local),
                !.rep.written = @ \cup {local.number}],
             Tail(works), relFails)

\* A variant that ends at the first failing relationship call.
RECURSIVE PushFinalizeStops(_, _, _)
PushFinalizeStops(st, works, relFails) ==
  IF works = <<>> THEN st
  ELSE LET item == Head(works).Item
           local == [item.Issue EXCEPT !.syncedAt = 1]
           synced == SyncRelationships(st, local.number, local, relFails)
       IN  IF relFails THEN [synced EXCEPT !.rep.err = TRUE]
           ELSE PushFinalizeStops(
                  [synced EXCEPT
                     !.files = WriteFile(synced.files, item.Path, local),
                     !.originals = writeOriginalIssue(synced.originals, local),
                     !.rep.written = @ \cup {local.number}],
                  Tail(works), relFails)

\* Phase 5: relationships, then the file and the snapshot of every queued
\* record are written.
RECURSIVE PushFinalize(_, _, _)
PushFinalize(st, works, relFails) ==
  IF works = <<>> THEN st
  ELSE LET item == Head(works).Item
           local == [item.Issue EXCEPT !.syncedAt = 1]
           synced == SyncRelationships(st, local.number, local, relFails)
       IN  PushFinalize(
             [synced EXCEPT
                !.files = WriteFile(synced.files, item.Path, local),
                !.originals = writeOriginalIssue(synced.originals, local),
                !.rep.written = @ \cup {local.number}],
             Tail(works), relFails)

PushFails == {"none", "create1", "create2", "create3", "fetch", "state", "batch",
              "item", "relationships"}

\* Phases 4 and 5, on the state phase 3 left.
PushUpdate(st, fail) ==
  IF st.rep.err THEN st
  ELSE IF st.updates # <<>> /\ fail = "batch"
  THEN [st EXCEPT !.rep.err = TRUE,
                  !.rep.failed = @ \cup {"batch"},
                  !.rep.log = @ \o [i \in 1..Len(st.updates) |->
                                      <<"edit", st.updates[i].Item.Issue.number>>],
                  !.rep.calls = @ \cup {<<"edit", st.updates[i].Item.Issue.number>> :
                                          i \in 1..Len(st.updates)}]
  ELSE PushFinalize(PushBatchEdit(st, st.updates, fail = "item"),
                    st.works, fail = "relationships")

\* Phases 2 and 3, on the pending records of phase 1.
PushFetch(st, pending, fail) ==
  IF pending # <<>> /\ fail = "fetch"
  THEN [st EXCEPT !.rep.err = TRUE, !.rep.failed = @ \cup {"fetch"}]
  ELSE PushUpdate(PushDetect(st, pending, st.remote, fail = "state"), fail)

\* Phases 1 to 5 over the filtered records.
PushPhases(st, filtered, dryRun, fail) ==
  PushFetch([st EXCEPT !.rep.unchanged = PushUnchanged(st, filtered)],
            IF dryRun THEN <<>> ELSE PushPending(st, filtered), fail)

PushRelations(st, filtered, dryRun, fail) ==
  PushPhases(PushSyncCreated(st, filtered, fail = "relationships"),
             filtered, dryRun, fail)

\* With a mapping: every local record is reloaded and rewritten, the
\* arguments are mapped, the records are filtered again.
PushReferences(st, loaded, arg, dryRun, fail) ==
  PushRelations(
    PushApplyMapping(st, loaded, st.rep.mapping),
    filterIssuesByArgs(
      [i \in 1..Len(loaded) |->
         [loaded[i] EXCEPT !.Issue = applyMappingIssue(@, st.rep.mapping)]],
      IF arg \in DOMAIN st.rep.mapping THEN st.rep.mapping[arg] ELSE arg),
    dryRun, fail)

PushAfterCreate(st, filtered, arg, dryRun, fail) ==
  IF st.rep.err THEN st
  ELSE IF DOMAIN st.rep.mapping = {} THEN PushPhases(st, filtered, dryRun, fail)
  ELSE PushReferences(st, loadLocalIssues(st.files), arg, dryRun, fail)

PushFiltered(st, filtered, arg, dryRun, fail) ==
  IF filtered = <<>> THEN [st EXCEPT !.rep.err = TRUE]
  ELSE PushAfterCreate(
         IF dryRun THEN st
         ELSE PushCreateLoop(st, filtered,
                             IF fail = "create1" THEN 1
                             ELSE IF fail = "create2" THEN 2
                             ELSE IF fail = "create3" THEN 3 ELSE 0),
         filtered, arg, dryRun, fail)

\* The whole of Push on a store and a remote; the result carries the report.
PushRun(fs, orig, r, cf, arg, dryRun, fail) ==
  PushFiltered([files |-> fs, originals |-> orig, remote |-> r,
                createdFor |-> cf.created, createRequests |-> cf.requests,
                changed |-> {}, updates |-> <<>>, works |-> <<>>,
                rep |-> Report("push", <<arg, dryRun>>)],
               filterIssuesByArgs(loadLocalIssues(fs), arg), arg, dryRun, fail)

PushStore(res) ==
  /\ files' = res.files
  /\ originals' = res.originals
  /\ remote' = res.remote
  /\ createdFor' = res.createdFor
  /\ createRequests' = res.createRequests
  /\ changedSince' = changedSince \cup res.changed
  /\ last' = res.rep

\* Push from the loading of the issue files on.
PushIssues(arg, dryRun, fail) ==
  /\ budget.pushes < MaxPushes
  /\ Steps < MaxCmds
  /\ arg \in FileNums(files) \cup {""}
  /\ fail \in PushFails
  /\ (dryRun => fail = "none")
  /\ PushStore(PushRun(files, originals, remote,
                       [created |-> createdFor, requests |-> createRequests],
                       arg, dryRun, fail))
  /\ budget' = [budget EXCEPT !.pushes = @ + 1]
  /\ UNCHANGED <<hasLastFullPull, usedTemps>>

Push(arg, dryRun, fail) ==
  /\ PushIssues(arg, dryRun, fail)
  /\ UNCHANGED <<probe, auxVars, lockVars>>

\* ------------------------------------------------------------ specification

Next ==
  \/ \E id \in {"T1", "T10"}, title \in {TextA} : NewIssue(id, title)
  \/ \E number \in AllIds, kind \in EditKinds : Edit(number, kind)
  \/ \E number \in AllIds, reason \in CloseReasons : Close(number, reason)
  \/ \E number \in AllIds : Reopen(number)
  \/ \E number \in AllIds : Remove(number)
  \/ \E mode \in PullModes, force \in BOOLEAN, arg \in PermIds \cup {""},
        fails \in BOOLEAN, batchFails \in BOOLEAN :
        Pull(mode, force, arg, fails, batchFails)
  \/ \E arg \in AllIds \cup {""}, dryRun \in BOOLEAN, fail \in PushFails :
        Push(arg, dryRun, fail)
  \/ \E number \in PermIds, kind \in RemoteEditKinds : RemoteEdit(number, kind)

vars == <<storeVars, probe, auxVars, lockVars>>

Spec == Init /\ [][Next]_vars

\* ------------------------------------------------- after a pushed Close

\* The store after Pull --all, Close of record 1 without a reason, and Push:
\* the service has recorded the reason COMPLETED, the snapshot has none.
\* The behaviours that start here are charged one command.
AfterClose ==
  LET pulled == PullRun({}, [n \in AllIds |-> NoFile], InitRemote,
                        <<"all", FALSE, "">>, RemoteNums(InitRemote), {})
  IN  PushRun(CloseFiles(pulled.files, "1", ""), pulled.originals, InitRemote,
              [created |-> [t \in TempIds |-> {}], requests |-> [t \in TempIds |-> 0]],
              "", FALSE, "none")

InitAfterClose ==
  /\ files = AfterClose.files
  /\ originals = AfterClose.originals
  /\ remote = AfterClose.remote
  /\ hasLastFullPull = TRUE
  /\ changedSince = AfterClose.changed
  /\ usedTemps = {}
  /\ createdFor = [t \in TempIds |-> {}]
  /\ createRequests = [t \in TempIds |-> 0]
  /\ last = Report("init", <<>>)
  /\ budget = [edits |-> 0, remoteEdits |-> 0, pulls |-> 1, pushes |-> 0,
               stateCmds |-> 0]
  /\ InitLock
  /\ probe = NoProbe
  /\ InitAux

SpecAfterClose == InitAfterClose /\ [][Next]_vars

\* ------------------------------------------ applyMapping taken on its own

\* Longest text of the inputs.
MaxTextLen == 5

ProbeChars == {"#", "T", "1", "0", " "}

RECURSIVE TextsUpTo(_)
TextsUpTo(n) ==
  IF n = 0 THEN {<<>>}
  ELSE LET S == TextsUpTo(n - 1)
       IN  S \cup {Append(t, c) : t \in {u \in S : Len(u) = n - 1}, c \in ProbeChars}

ProbeMappings ==
  {[t \in D |-> IF t = "T1" THEN "3" ELSE "4"] : D \in SUBSET {"T1", "T10"}}

\* Titles and structured references of the inputs.
ProbeShapes ==
  {[title |-> TextA, parent |-> "", blockedBy |-> <<>>, blocks |-> <<>>],
   [title |-> <<"#", "T", "1">>, parent |-> "T1",
    blockedBy |-> <<"T10", "T1", "2">>, blocks |-> <<"T1">>],
   [title |-> RefBody, parent |-> "T10", blockedBy |-> <<"2">>,
    blocks |-> <<"T10", "2">>],
   [title |-> TextB, parent |-> "2", blockedBy |-> <<"T1">>, blocks |-> <<>>]}

InitMap ==
  /\ InitStore
  /\ InitLock
  /\ InitAux
  /\ \E body \in TextsUpTo(MaxTextLen), shape \in ProbeShapes,
        mapping \in ProbeMappings :
       probe = [NoProbe EXCEPT
                  !.in = [BlankIssue EXCEPT !.number = "1", !.state = "open",
                                            !.labels = <<"bug">>,
                                            !.title = shape.title,
                                            !.body = body,
                                            !.parent = shape.parent,
                                            !.blockedBy = shape.blockedBy,
                                            !.blocks = shape.blocks],
                  !.mapping = mapping]

\* applyMapping(&issue, mapping): the issue is rewritten in place, the
\* result says whether anything changed.
ApplyMapping ==
  /\ ~probe.applied
  /\ probe' = [probe EXCEPT
                 !.out = applyMappingIssue(probe.in, probe.mapping),
                 !.changed = applyMappingChanged(probe.in, probe.mapping),
                 !.applied = TRUE]
  /\ UNCHANGED <<storeVars, auxVars, lockVars>>

NextMap == ApplyMapping

SpecMap == InitMap /\ [][NextMap]_vars

\* --------------------------------------------------------- the advisory lock

Commands == {"pull", "push", "new", "close", "reopen"}

\* Pull, Push and NewIssue load the configuration before they take the lock.
LoadsConfigFirst(c) == c \in {"pull", "push", "new"}

\* lock.Acquire: granted when no process holds the lock.
lockAcquire(holder, p) == IF holder = 0 THEN p ELSE holder

\* lck.Release
lockRelease(holder, p) == IF holder = p THEN 0 ELSE holder

\* A variant without the deferred call.
DeferredReleaseMissing(holder, p) == holder

\* `defer lck.Release()`: runs on every return after the acquisition.
DeferredRelease(holder, p) == lockRelease(holder, p)

\* A command is started by process p.
Start(p, c) ==
  /\ pc[p] \in {"idle", "done"}
  /\ cmdOf' = [cmdOf EXCEPT ![p] = c]
  /\ exitOf' = [exitOf EXCEPT ![p] = ""]
  /\ pc' = [pc EXCEPT ![p] = IF LoadsConfigFirst(c) THEN "config" ELSE "acquire"]
  /\ UNCHANGED <<lockHolder, storeVars, probe, auxVars>>

\* loadConfig(p.ConfigPath): the configuration file of the control directory
\* is read; a failure returns.
LoadConfig(p, ok) ==
  /\ pc[p] = "config"
  /\ pc' = [pc EXCEPT ![p] = IF ok THEN "acquire" ELSE "done"]
  /\ exitOf' = [exitOf EXCEPT ![p] = IF ok THEN "" ELSE "config-error"]
  /\ UNCHANGED <<cmdOf, lockHolder, storeVars, probe, auxVars>>

\* lock.Acquire succeeds.
Acquire(p) ==
  /\ pc[p] = "acquire"
  /\ lockHolder = 0
  /\ lockHolder' = lockAcquire(lockHolder, p)
  /\ pc' = [pc EXCEPT ![p] = "body"]
  /\ UNCHANGED <<cmdOf, exitOf, storeVars, probe, auxVars>>

\* lock.Acquire gives up after lock.DefaultTimeout: the command returns the
\* error.
AcquireTimeout(p) ==
  /\ pc[p] = "acquire"
  /\ lockHolder # 0
  /\ pc' = [pc EXCEPT ![p] = "done"]
  /\ exitOf' = [exitOf EXCEPT ![p] = "lock-timeout"]
  /\ UNCHANGED <<cmdOf, lockHolder, storeVars, probe, auxVars>>

\* The command's work on the local store ends, normally or with an error,
\* and the deferred release runs.
Return(p, ok) ==
  /\ pc[p] = "body"
  /\ pc' = [pc EXCEPT ![p] = "done"]
  /\ exitOf' = [exitOf EXCEPT ![p] = IF ok THEN "ok" ELSE "error"]
  /\ lockHolder' = DeferredRelease(lockHolder, p)
  /\ UNCHANGED <<cmdOf, storeVars, probe, auxVars>>

\* Edit and Init never call lock.Acquire.
UnlockedCommands == {"edit", "init"}

\* Edit or Init is started by process p: Edit opens the editor on the issue
\* file and renames the file after a title change, Init creates the layout
\* and saves the configuration file.
StartUnlocked(p, c) ==
  /\ pc[p] \in {"idle", "done"}
  /\ cmdOf' = [cmdOf EXCEPT ![p] = c]
  /\ exitOf' = [exitOf EXCEPT ![p] = ""]
  /\ pc' = [pc EXCEPT ![p] = "write"]
  /\ UNCHANGED <<lockHolder, storeVars, probe, auxVars>>

\* Edit or Init returns; no release is deferred.
ReturnUnlocked(p, ok) ==
  /\ pc[p] = "write"
  /\ pc' = [pc EXCEPT ![p] = "done"]
  /\ exitOf' = [exitOf EXCEPT ![p] = IF ok THEN "ok" ELSE "error"]
  /\ UNCHANGED <<cmdOf, lockHolder, storeVars, probe, auxVars>>

NextLock ==
  \/ \E p \in Procs, c \in Commands : Start(p, c)
  \/ \E p \in Procs, c \in UnlockedCommands : StartUnlocked(p, c)
  \/ \E p \in Procs, ok \in BOOLEAN : ReturnUnlocked(p, ok)
  \/ \E p \in Procs, ok \in BOOLEAN : LoadConfig(p, ok)
  \/ \E p \in Procs : Acquire(p)
  \/ \E p \in Procs : AcquireTimeout(p)
  \/ \E p \in Procs, ok \in BOOLEAN : Return(p, ok)

SpecLock == Init /\ [][NextLock]_vars

\* ------------------------------------------- ThreeWayMerge taken on its own

\* Most fields in which local, and remote, differ from base.
MaxChanged == 2

\* An issue with every field ComputeChanges compares.  List items and
\* names are drawn from the strings StrRank orders.
MergeBase ==
  [number |-> "1", title |-> TextA, labels |-> <<"bug">>, assignees |-> <<>>,
   milestone |-> "", issueType |-> "", projects |-> <<"urgent">>,
   state |-> "open", stateReason |-> "", parent |-> "",
   blockedBy |-> <<"2">>, blocks |-> <<>>, syncedAt |-> 0,
   body |-> <<"x", "\n">>]

\* The zero value of issue.Issue with every compared field.
MergeBlank ==
  [number |-> "", title |-> <<>>, labels |-> <<>>, assignees |-> <<>>,
   milestone |-> "", issueType |-> "", projects |-> <<>>, state |-> "",
   stateReason |-> "", parent |-> "", blockedBy |-> <<>>, blocks |-> <<>>,
   syncedAt |-> 0, body |-> <<>>]

\* Normalize with the assignees and the projects.
NormalizeAll(issue) ==
  [Normalize(issue) EXCEPT !.assignees = sortedStrings(issue.assignees),
                           !.projects = sortedStrings(issue.projects)]

\* The zero value of FieldSet.
NoFields ==
  [Title |-> FALSE, Labels |-> FALSE, Assignees |-> FALSE, Milestone |-> FALSE,
   IssueType |-> FALSE, Projects |-> FALSE, State |-> FALSE, Parent |-> FALSE,
   BlockedBy |-> FALSE, Blocks |-> FALSE, Body |-> FALSE]

\* A variant that forgets the body.
IsEmptyButBody(f) ==
  ~f.Title /\ ~f.Labels /\ ~f.Assignees /\ ~f.Milestone /\ ~f.IssueType
    /\ ~f.Projects /\ ~f.State /\ ~f.Parent /\ ~f.BlockedBy /\ ~f.Blocks

\* FieldSet.IsEmpty
IsEmpty(f) ==
  ~f.Title /\ ~f.Labels /\ ~f.Assignees /\ ~f.Milestone /\ ~f.IssueType
    /\ ~f.Projects /\ ~f.State /\ ~f.Parent /\ ~f.BlockedBy /\ ~f.Blocks
    /\ ~f.Body

\* FieldSet.Overlaps
Overlaps(f, other) ==
  [Title |-> f.Title /\ other.Title,
   Labels |-> f.Labels /\ other.Labels,
   Assignees |-> f.Assignees /\ other.Assignees,
   Milestone |-> f.Milestone /\ other.Milestone,
   IssueType |-> f.IssueType /\ other.IssueType,
   Projects |-> f.Projects /\ other.Projects,
   State |-> f.State /\ other.State,
   Parent |-> f.Parent /\ other.Parent,
   BlockedBy |-> f.BlockedBy /\ other.BlockedBy,
   Blocks |-> f.Blocks /\ other.Blocks,
   Body |-> f.Body /\ other.Body]

\* ComputeChanges: both sides are normalised, then compared field by field.
ComputeChanges(base0, changed0) ==
  LET base == NormalizeAll(base0)
      changed == NormalizeAll(changed0)
  IN  [Title |-> base.title # changed.title,
       Labels |-> base.labels # changed.labels,
       Assignees |-> base.assignees # changed.assignees,
       Milestone |-> base.milestone # changed.milestone,
       IssueType |-> base.issueType # changed.issueType,
       Projects |-> base.projects # changed.projects,
       State |-> base.state # changed.state,
       Parent |-> base.parent # changed.parent,
       BlockedBy |-> base.blockedBy # changed.blockedBy,
       Blocks |-> base.blocks # changed.blocks,
       Body |-> base.body # changed.body]

\* A variant that overlays the title whether or not local changed it.
MergedTitleAlways(local, upstream, localChanges) ==
  [NormalizeAll(upstream) EXCEPT
     !.title = local.title,
     !.labels = IF localChanges.Labels THEN local.labels ELSE @,
     !.assignees = IF localChanges.Assignees THEN local.assignees ELSE @,
     !.milestone = IF localChanges.Milestone THEN local.milestone ELSE @,
     !.issueType = IF localChanges.IssueType THEN local.issueType ELSE @,
     !.projects = IF localChanges.Projects THEN local.projects ELSE @,
     !.state = IF localChanges.State THEN local.state ELSE @,
     !.parent = IF localChanges.Parent THEN local.parent ELSE @,
     !.blockedBy = IF localChanges.BlockedBy THEN local.blockedBy ELSE @,
     !.blocks = IF localChanges.Blocks THEN local.blocks ELSE @,
     !.body = IF localChanges.Body THEN local.body ELSE @]

\* The merged issue: the normalised remote with local's value in every
\* field local changed.
Merged(local, upstream, localChanges) ==
  [NormalizeAll(upstream) EXCEPT
     !.title = IF localChanges.Title THEN local.title ELSE @,
     !.labels = IF localChanges.Labels THEN local.labels ELSE @,
     !.assignees = IF localChanges.Assignees THEN local.assignees ELSE @,
     !.milestone = IF localChanges.Milestone THEN local.milestone ELSE @,
     !.issueType = IF localChanges.IssueType THEN local.issueType ELSE @,
     !.projects = IF localChanges.Projects THEN local.projects ELSE @,
     !.state = IF localChanges.State THEN local.state ELSE @,
     !.parent = IF localChanges.Parent THEN local.parent ELSE @,
     !.blockedBy = IF localChanges.BlockedBy THEN local.blockedBy ELSE @,
     !.blocks = IF localChanges.Blocks THEN local.blocks ELSE @,
     !.body = IF localChanges.Body THEN local.body ELSE @]

ThreeWayMerge(base, local, upstream) ==
  LET localChanges == ComputeChanges(base, local)
      remoteChanges == ComputeChanges(base, upstream)
      conflicts == Overlaps(localChanges, remoteChanges)
  IN  IF ~IsEmpty(conflicts)
      THEN [Merged |-> MergeBlank, OK |-> FALSE, ConflictingFields |-> conflicts,
            LocalChanges |-> localChanges, RemoteChanges |-> remoteChanges]
      ELSE [Merged |-> Merged(local, upstream, localChanges), OK |-> TRUE,
            ConflictingFields |-> NoFields,
            LocalChanges |-> localChanges, RemoteChanges |-> remoteChanges]

\* The i-th other value of field f; title, labels, parent, blockedBy and
\* body take two.  The first other value of labels,
\* blockedBy and body normalises to the value of MergeBase.
MergeAlt(f, i) ==
  CASE f = "title" -> IF i = 1 THEN TextB ELSE TextX
    [] f = "labels" -> IF i = 1 THEN <<" bug", "bug">> ELSE <<"urgent", "bug">>
    [] f = "assignees" -> <<"bug">>
    [] f = "milestone" -> "urgent"
    [] f = "issueType" -> "bug"
    [] f = "projects" -> <<>>
    [] f = "state" -> "closed"
    [] f = "stateReason" -> "completed"
    [] f = "parent" -> IF i = 1 THEN "2" ELSE "T1"
    [] f = "blockedBy" -> IF i = 1 THEN <<"2", "2">> ELSE <<"T1", "2">>
    [] f = "blocks" -> <<"1">>
    [] f = "body" -> IF i = 1 THEN <<"x">> ELSE <<"a", "\n">>

\* Which fields differ from MergeBase, and by which value.
MergeChoices ==
  LET MergeFields == {"title", "labels", "assignees", "milestone", "issueType",
                      "projects", "state", "stateReason", "parent", "blockedBy",
                      "blocks", "body"}
      Two == {"title", "labels", "parent", "blockedBy", "body"}
  IN  UNION {{c \in [S -> {1, 2}] : \A f \in S : f \in Two \/ c[f] = 1} :
               S \in {T \in SUBSET MergeFields : Cardinality(T) <= MaxChanged}}

MergeInput(c) ==
  [f \in DOMAIN MergeBase |->
     IF f \in DOMAIN c THEN MergeAlt(f, c[f]) ELSE MergeBase[f]]

InitMerge ==
  /\ InitStore
  /\ InitLock
  /\ probe = NoProbe
  /\ trip = NoTrip
  /\ fetch = NoFetch
  /\ catalog = NoCatalog
  /\ compare = NoCompare
  /\ \E lc \in MergeChoices, rc \in MergeChoices :
       merge = [base |-> MergeBase, local |-> MergeInput(lc),
                remote |-> MergeInput(rc), result |-> ThreeWayMerge(MergeBlank, MergeBlank, MergeBlank),
                done |-> FALSE]

\* ThreeWayMerge(base, local, remote)
Merge ==
  /\ ~merge.done
  /\ merge' = [merge EXCEPT
                 !.result = ThreeWayMerge(merge.base, merge.local, merge.remote),
                 !.done = TRUE]
  /\ UNCHANGED <<storeVars, probe, trip, fetch, catalog, compare, lockVars>>

NextMerge == Merge

SpecMerge == InitMerge /\ [][NextMerge]_vars

\* --------------------------------- WriteFile and ParseFile taken on their own

\* Longest body of the inputs, and most optional fields populated at once.
MaxBodyLen == 3
MaxPopulated == 3

RECURSIVE BodiesUpTo(_)
BodiesUpTo(n) ==
  IF n = 0 THEN {<<>>}
  ELSE LET S == BodiesUpTo(n - 1)
       IN  S \cup {Append(t, c) : t \in {u \in S : Len(u) = n - 1}, c \in {"a", "\n", "\r"}}

\* equalIssues with every field it compares.
EqualIgnoringSyncedAtFull(a, b) ==
  /\ EqualIgnoringSyncedAt(a, b)
  /\ NormalizeAll(a).assignees = NormalizeAll(b).assignees
  /\ a.milestone = b.milestone
  /\ NormalizeAll(a).projects = NormalizeAll(b).projects

\* IssueRef.MarshalYAML, as the scalar the document shows: nothing for "",
\* the string for a temporary id, the integer in decimal where strconv.Atoi
\* succeeds.  "02" is a reference as a hand-written file may hold it.
MarshalYAML(r) ==
  IF r = "" THEN ""
  ELSE IF IsLocal(r) THEN r
  ELSE IF r \in PermIds \cup {"02"}
       THEN IdOfNum(IF r = "02" THEN 2 ELSE NumOf(r))
  ELSE r

\* IssueRef.UnmarshalYAML: the text of the scalar.
UnmarshalYAML(value) == value

\* yaml.Marshal(&fm) for the FrontMatter Render builds: the keys the document
\* has (a key tagged omitempty is left out when its value is empty) and their
\* values.
MarshalFrontMatter(issue) ==
  LET labels == sortedStrings(issue.labels)
      assignees == sortedStrings(issue.assignees)
      projects == sortedStrings(issue.projects)
      blockedBy == sortedRefs(issue.blockedBy)
      blocks == sortedRefs(issue.blocks)
  IN  [keys |-> {"title", "state_reason"}
                  \cup (IF labels # <<>> THEN {"labels"} ELSE {})
                  \cup (IF assignees # <<>> THEN {"assignees"} ELSE {})
                  \cup (IF issue.milestone # "" THEN {"milestone"} ELSE {})
                  \cup (IF issue.issueType # "" THEN {"type"} ELSE {})
                  \cup (IF projects # <<>> THEN {"projects"} ELSE {})
                  \cup (IF issue.state # "" THEN {"state"} ELSE {})
                  \cup (IF issue.parent # "" THEN {"parent"} ELSE {})
                  \cup (IF blockedBy # <<>> THEN {"blocked_by"} ELSE {})
                  \cup (IF blocks # <<>> THEN {"blocks"} ELSE {}),
       title |-> issue.title,
       labels |-> labels,
       assignees |-> assignees,
       milestone |-> issue.milestone,
       type |-> issue.issueType,
       projects |-> projects,
       state |-> issue.state,
       state_reason |-> issue.stateReason,
       parent |-> MarshalYAML(issue.parent),
       blocked_by |-> [i \in 1..Len(blockedBy) |-> MarshalYAML(blockedBy[i])],
       blocks |-> [i \in 1..Len(blocks) |-> MarshalYAML(blocks[i])]]

\* The bytes Render puts around the YAML document.  The document itself is
\* kept as MarshalFrontMatter gives it; in the bytes one line stands for its
\* lines, none of which is "---".
Delimiter == <<"-", "-", "-">>

RenderData(issue) ==
  Delimiter \o <<"\n">> \o <<"y", "\n">> \o Delimiter \o <<"\n", "\n">>
    \o normalizeBody(issue.body)

\* bytes.Split(data, "\n")
RECURSIVE SplitNL(_)
SplitNL(s) ==
  IF ~\E i \in 1..Len(s) : s[i] = "\n" THEN <<s>>
  ELSE LET i == CHOOSE k \in 1..Len(s) :
                  s[k] = "\n" /\ \A j \in 1..(k - 1) : s[j] # "\n"
       IN  <<SubSeq(s, 1, i - 1)>> \o SplitNL(SubSeq(s, i + 1, Len(s)))

\* bytes.Join(lines, "\n")
RECURSIVE JoinNL(_)
JoinNL(lines) ==
  IF lines = <<>> THEN <<>>
  ELSE IF Len(lines) = 1 THEN lines[1]
  ELSE lines[1] \o <<"\n">> \o JoinNL(Tail(lines))

\* splitFrontMatter: the body is what follows the first line "---" after the
\* opening one, less one leading newline.
splitFrontMatter(data) ==
  LET lines == SplitNL(data)
      ends == {i \in 2..Len(lines) : lines[i] = Delimiter}
  IN  IF Len(data) < 4 \/ SubSeq(data, 1, 4) # Delimiter \o <<"\n">> \/ ends = {}
      THEN [ok |-> FALSE, body |-> <<>>]
      ELSE LET end == CHOOSE i \in ends : \A j \in ends : i <= j
               body == JoinNL(SubSeq(lines, end + 1, Len(lines)))
           IN  [ok |-> TRUE,
                body |-> IF body # <<>> /\ Head(body) = "\n" THEN Tail(body) ELSE body]

\* FileName(number, title)
FileName(number, title) ==
  Chars(number) \o <<"-">> \o FileSlug(title) \o <<".", "m", "d">>

\* numberFromFilename: the name up to its first dash.
numberFromFilename(name) ==
  LET i == CHOOSE k \in 1..Len(name) :
             name[k] = "-" /\ \A j \in 1..(k - 1) : name[j] # "-"
  IN  CHOOSE id \in AllIds : Chars(id) = SubSeq(name, 1, i - 1)

\* Render and the write
WriteIssueFile(issue) ==
  [name |-> FileName(issue.number, issue.title),
   doc |-> MarshalFrontMatter(issue),
   data |-> RenderData(issue)]

\* ParseFile: yaml.Unmarshal gives a key the document lacks its zero value.
ParseFile(file) ==
  LET doc == file.doc
      split == splitFrontMatter(file.data)
  IN  [number |-> numberFromFilename(file.name),
       title |-> doc.title,
       labels |-> IF "labels" \in doc.keys THEN doc.labels ELSE <<>>,
       assignees |-> IF "assignees" \in doc.keys THEN doc.assignees ELSE <<>>,
       milestone |-> IF "milestone" \in doc.keys THEN doc.milestone ELSE "",
       issueType |-> IF "type" \in doc.keys THEN doc.type ELSE "",
       projects |-> IF "projects" \in doc.keys THEN doc.projects ELSE <<>>,
       state |-> IF "state" \in doc.keys THEN doc.state ELSE "",
       stateReason |-> doc.state_reason,
       parent |-> IF "parent" \in doc.keys THEN UnmarshalYAML(doc.parent) ELSE "",
       blockedBy |-> IF "blocked_by" \in doc.keys
                     THEN [i \in 1..Len(doc.blocked_by) |-> UnmarshalYAML(doc.blocked_by[i])]
                     ELSE <<>>,
       blocks |-> IF "blocks" \in doc.keys
                  THEN [i \in 1..Len(doc.blocks) |-> UnmarshalYAML(doc.blocks[i])]
                  ELSE <<>>,
       syncedAt |-> 0,
       body |-> normalizeBody(split.body)]

\* The optional fields and their populated values; the parent takes three.
Populated(f, i) ==
  CASE f = "labels" -> <<"urgent", " bug">>
    [] f = "assignees" -> <<"bug">>
    [] f = "milestone" -> "urgent"
    [] f = "issueType" -> "bug"
    [] f = "projects" -> <<"urgent", "urgent">>
    [] f = "state" -> "closed"
    [] f = "stateReason" -> "completed"
    [] f = "parent" -> IF i = 1 THEN "2" ELSE IF i = 2 THEN "T1" ELSE "02"
    [] f = "blockedBy" -> <<"T1", "2">>
    [] f = "blocks" -> <<"3">>

FormatChoices ==
  LET OptionalFields == {"labels", "assignees", "milestone", "issueType", "projects",
                         "state", "stateReason", "parent", "blockedBy", "blocks"}
  IN  UNION {{c \in [S -> {1, 2, 3}] : \A f \in S : f = "parent" \/ c[f] = 1} :
               S \in {T \in SUBSET OptionalFields :
                        Cardinality(T) <= MaxPopulated \/ T = OptionalFields}}

FormatInput(number, body, c) ==
  [f \in DOMAIN MergeBlank |->
     IF f \in DOMAIN c THEN Populated(f, c[f])
     ELSE IF f = "number" THEN number
     ELSE IF f = "title" THEN TextA
     ELSE IF f = "body" THEN body
     ELSE MergeBlank[f]]

InitFormat ==
  /\ InitStore
  /\ InitLock
  /\ probe = NoProbe
  /\ merge = NoMerge
  /\ fetch = NoFetch
  /\ catalog = NoCatalog
  /\ compare = NoCompare
  /\ \E number \in {"1", "T1"}, body \in BodiesUpTo(MaxBodyLen), c \in FormatChoices :
       trip = [stage |-> "new", issue |-> FormatInput(number, body, c),
               file |-> WriteIssueFile(MergeBlank), parsed |-> MergeBlank]

\* issue.WriteFile(path, issue)
TripWrite ==
  /\ trip.stage = "new"
  /\ trip' = [trip EXCEPT !.stage = "written", !.file = WriteIssueFile(trip.issue)]
  /\ UNCHANGED <<storeVars, probe, merge, fetch, catalog, compare, lockVars>>

\* issue.ParseFile(path)
TripParse ==
  /\ trip.stage = "written"
  /\ splitFrontMatter(trip.file.data).ok
  /\ trip' = [trip EXCEPT !.stage = "parsed", !.parsed = ParseFile(trip.file)]
  /\ UNCHANGED <<storeVars, probe, merge, fetch, catalog, compare, lockVars>>

NextFormat == TripWrite \/ TripParse

SpecFormat == InitFormat /\ [][NextFormat]_vars

\* ----------------------------------- the two fetch tasks of an unscoped Pull

\* The numbers the listing and the batched lookup may deliver.
FetchNums == {"1", "2"}

\* make(chan ..., 1): every result channel of Pull holds one value.
ChanCap == 1

\* A variant with unbuffered channels: a send needs the receiver at its
\* receive.
CanSendUnbuffered(ch, receiverWaiting) == receiverWaiting /\ ch = <<>>

\* A send on a result channel goes through when the buffer has room.
CanSend(ch, receiverWaiting) == Len(ch) < ChanCap

\* A variant in which the main flow does not wait for the batched lookup.
AfterListNoWait(err, isIncremental, issues) ==
  IF err THEN "failed"
  ELSE IF isIncremental /\ issues = {} THEN "fast"
  ELSE "loop"

\* Where the main flow goes once it has the listing: out with the error, out
\* by the fast path, or on to the receive from batchCh.
AfterList(err, isIncremental, issues) ==
  IF err THEN "failed"
  ELSE IF isIncremental /\ issues = {} THEN "fast"
  ELSE "waitBatch"

\* Pull has computed isIncremental and toFetch; no task runs yet.
InitFetch ==
  /\ InitStore
  /\ InitLock
  /\ probe = NoProbe
  /\ merge = NoMerge
  /\ trip = NoTrip
  /\ catalog = NoCatalog
  /\ compare = NoCompare
  /\ \E isIncremental \in BOOLEAN, toFetch \in SUBSET FetchNums :
       /\ (isIncremental => toFetch = {})
       /\ fetch = [main |-> "start", list |-> "none", batch |-> "none",
                   listCh |-> <<>>, batchCh |-> <<>>,
                   isIncremental |-> isIncremental, toFetch |-> toFetch,
                   received |-> {}, remoteIssues |-> {}]

\* The main flow makes both channels and starts both tasks.
FetchSpawn ==
  /\ fetch.main = "start"
  /\ fetch' = [fetch EXCEPT !.main = "waitList", !.list = "running",
                            !.batch = "running"]
  /\ UNCHANGED <<storeVars, probe, merge, trip, catalog, compare, lockVars>>

\* The listing task: ListIssuesWithRelationships, then the send on listCh.
ListTask(err, issues) ==
  /\ fetch.list = "running"
  /\ CanSend(fetch.listCh, fetch.main = "waitList")
  /\ err => issues = {}
  /\ fetch' = [fetch EXCEPT !.list = "done",
                            !.listCh = <<[err |-> err, issues |-> issues]>>]
  /\ UNCHANGED <<storeVars, probe, merge, trip, catalog, compare, lockVars>>

\* The lookup task: GetIssuesBatch when toFetch is not empty, then the send
\* on batchCh.
BatchTask(err, missing) ==
  /\ fetch.batch = "running"
  /\ CanSend(fetch.batchCh, fetch.main = "waitBatch")
  /\ (fetch.toFetch = {} \/ err) => missing = {}
  /\ missing \subseteq fetch.toFetch
  /\ fetch' = [fetch EXCEPT
                 !.batch = "done",
                 !.batchCh = <<[err |-> err /\ fetch.toFetch # {},
                                issues |-> IF err THEN {}
                                           ELSE fetch.toFetch \ missing]>>]
  /\ UNCHANGED <<storeVars, probe, merge, trip, catalog, compare, lockVars>>

\* listRes := <-listCh
RecvList ==
  /\ fetch.main = "waitList"
  /\ fetch.listCh # <<>>
  /\ fetch' = [fetch EXCEPT
                 !.main = AfterList(fetch.listCh[1].err, fetch.isIncremental,
                                    fetch.listCh[1].issues),
                 !.listCh = <<>>,
                 !.received = @ \cup {"list"},
                 !.remoteIssues = fetch.listCh[1].issues]
  /\ UNCHANGED <<storeVars, probe, merge, trip, catalog, compare, lockVars>>

\* batchRes := <-batchCh, and the records the listing lacked are appended.
RecvBatch ==
  /\ fetch.main = "waitBatch"
  /\ fetch.batchCh # <<>>
  /\ fetch' = [fetch EXCEPT
                 !.main = "loop",
                 !.batchCh = <<>>,
                 !.received = @ \cup {"batch"},
                 !.remoteIssues = @ \cup fetch.batchCh[1].issues]
  /\ UNCHANGED <<storeVars, probe, merge, trip, catalog, compare, lockVars>>

NextFetch ==
  \/ FetchSpawn
  \/ \E err \in BOOLEAN, issues \in SUBSET FetchNums : ListTask(err, issues)
  \/ \E err \in BOOLEAN, missing \in SUBSET FetchNums : BatchTask(err, missing)
  \/ RecvList
  \/ RecvBatch

SpecFetch == InitFetch /\ [][NextFetch]_vars

\* ------------------------------ every task of an unscoped Pull, to its return

\* The catalog-refresh tasks, in the order the main flow receives from them.
RefreshTasks == <<"milestones", "issueTypes", "projects">>

RefreshNames == SeqRange(RefreshTasks)

\* The position of the main flow at the receive from task i, and after it.
WaitFor(i) == <<"waitMilestones", "waitIssueTypes", "waitProjects">>[i]

AfterRefresh(i) == IF i < Len(RefreshTasks) THEN WaitFor(i + 1) ELSE "done"

InitTasks ==
  /\ InitStore
  /\ InitLock
  /\ probe = NoProbe
  /\ merge = NoMerge
  /\ trip = NoTrip
  /\ catalog = NoCatalog
  /\ compare = NoCompare
  /\ \E isIncremental \in BOOLEAN, toFetch \in SUBSET FetchNums :
       /\ (isIncremental => toFetch = {})
       /\ fetch = [main |-> "start", list |-> "none", batch |-> "none",
                   listCh |-> <<>>, batchCh |-> <<>>,
                   isIncremental |-> isIncremental, toFetch |-> toFetch,
                   received |-> {}, remoteIssues |-> {},
                   refresh |-> [t \in RefreshNames |-> "none"],
                   refreshCh |-> [t \in RefreshNames |-> <<>>]]

\* The reconciliation loop and the save of sync.last_full_pull: on an error
\* Pull returns; otherwise the main flow makes the three channels and starts
\* the three tasks.
LoopEnds(ok) ==
  /\ fetch.main = "loop"
  /\ fetch' = IF ok
              THEN [fetch EXCEPT !.main = WaitFor(1),
                                 !.refresh = [t \in RefreshNames |-> "running"]]
              ELSE [fetch EXCEPT !.main = "failed"]
  /\ UNCHANGED <<storeVars, probe, merge, trip, catalog, compare, lockVars>>

\* A catalog-refresh task: its listing call, then the send on its channel.
RefreshTask(i, err) ==
  /\ i \in 1..Len(RefreshTasks)
  /\ fetch.refresh[RefreshTasks[i]] = "running"
  /\ CanSend(fetch.refreshCh[RefreshTasks[i]], fetch.main = WaitFor(i))
  /\ fetch' = [fetch EXCEPT !.refresh[RefreshTasks[i]] = "done",
                            !.refreshCh[RefreshTasks[i]] = <<[err |-> err]>>]
  /\ UNCHANGED <<storeVars, probe, merge, trip, catalog, compare, lockVars>>

\* milestonesRes := <-milestonesCh, and the like for the two other channels:
\* an error is a warning, the main flow goes on to the next receive.
RecvRefresh(i) ==
  /\ i \in 1..Len(RefreshTasks)
  /\ fetch.main = WaitFor(i)
  /\ fetch.refreshCh[RefreshTasks[i]] # <<>>
  /\ fetch' = [fetch EXCEPT !.main = AfterRefresh(i),
                            !.refreshCh[RefreshTasks[i]] = <<>>,
                            !.received = @ \cup {RefreshTasks[i]}]
  /\ UNCHANGED <<storeVars, probe, merge, trip, catalog, compare, lockVars>>

ListTaskRuns ==
  \E err \in BOOLEAN, issues \in SUBSET FetchNums : ListTask(err, issues)

BatchTaskRuns ==
  \E err \in BOOLEAN, missing \in SUBSET FetchNums : BatchTask(err, missing)

RefreshTaskRuns(i) == \E err \in BOOLEAN : RefreshTask(i, err)

NextTasks ==
  \/ FetchSpawn
  \/ ListTaskRuns
  \/ BatchTaskRuns
  \/ RecvList
  \/ RecvBatch
  \/ \E ok \in BOOLEAN : LoopEnds(ok)
  \/ \E i \in 1..Len(RefreshTasks) : RefreshTaskRuns(i)
  \/ \E i \in 1..Len(RefreshTasks) : RecvRefresh(i)

\* Every task is a goroutine whose remote call returns and which the
\* scheduler runs whenever it can take a step, and so is the main flow.
SpecTasks ==
  /\ InitTasks
  /\ [][NextTasks]_vars
  /\ WF_vars(FetchSpawn)
  /\ WF_vars(ListTaskRuns)
  /\ WF_vars(BatchTaskRuns)
  /\ WF_vars(RecvList)
  /\ WF_vars(RecvBatch)
  /\ WF_vars(\E ok \in BOOLEAN : LoopEnds(ok))
  /\ \A i \in 1..Len(RefreshTasks) : WF_vars(RefreshTaskRuns(i))
  /\ \A i \in 1..Len(RefreshTasks) : WF_vars(RecvRefresh(i))

\* ------------------------------------- Push of records that refer to each other

\* What the operator wrote into a new record: a reference to the other new
\* record as parent, as blocker or blocked, or in the body.
Referring(issue, other, how) ==
  CASE how = "parent" -> [issue EXCEPT !.parent = other]
    [] how = "blockedBy" -> [issue EXCEPT !.blockedBy = <<other>>]
    [] how = "blocks" -> [issue EXCEPT !.blocks = <<other>>]
    [] how = "body" -> [issue EXCEPT !.body = RefBody]

NewFile(fs, id, issue) ==
  WriteFile(fs, PathFor("open", id, issue.title),
            [issue EXCEPT !.number = id, !.state = "open"])

\* New records T1 and T10 that refer to each other, with or without a third
\* new record; nothing pushed yet.
InitPromote ==
  /\ originals = [n \in AllIds |-> NoFile]
  /\ remote = InitRemote
  /\ hasLastFullPull = FALSE
  /\ changedSince = {}
  /\ createdFor = [t \in TempIds |-> {}]
  /\ createRequests = [t \in TempIds |-> 0]
  /\ last = Report("init", <<>>)
  /\ budget = [edits |-> 0, remoteEdits |-> 0, pulls |-> 0, pushes |-> 0,
               stateCmds |-> 0]
  /\ InitLock
  /\ InitAux
  /\ probe = NoProbe
  /\ \E how1 \in {"parent", "blockedBy", "blocks", "body"},
        how10 \in {"parent", "blockedBy", "blocks", "body"}, third \in BOOLEAN :
       LET two == NewFile(NewFile({}, "T1",
                                  Referring([BlankIssue EXCEPT !.title = TextA],
                                            "T10", how1)),
                          "T10",
                          Referring([BlankIssue EXCEPT !.title = TextB],
                                    "T1", how10))
       IN  /\ files = IF third
                      THEN NewFile(two, "T2", [BlankIssue EXCEPT !.title = TextX])
                      ELSE two
           /\ usedTemps = IF third THEN TempIds ELSE {"T1", "T10"}

NextPromote ==
  \E arg \in TempIds \cup {""}, dryRun \in BOOLEAN, fail \in PushFails :
    Push(arg, dryRun, fail)

SpecPromote == InitPromote /\ [][NextPromote]_vars

\* ------------------------------------ Push with its label and milestone caches

\* strings.ToLower on the names of the model.
ToLowerName(name) ==
  CASE name = "Bug" -> "bug"
    [] name = "V1" -> "v1"
    [] OTHER -> name

MilestoneNames == {"v1", "V1", "v2"}

\* The orders in which a map of names is ranged over.
RECURSIVE Orders(_)
Orders(S) ==
  IF S = {} THEN {<<>>}
  ELSE UNION {{<<x>> \o o : o \in Orders(S \ {x})} : x \in S}

CatalogReport ==
  [needed |-> {}, calls |-> {}, created |-> {}, warnings |-> {}, dryRun |-> FALSE,
   listFailed |-> FALSE]

\* A variant that keeps the spelling of the cached names.
labelCacheToColorMapAsSpelled(cache) == cache

\* labelCacheToColorMap: the lower-cased names of the cached labels.
labelCacheToColorMap(cache) == {ToLowerName(name) : name \in cache}

\* milestoneNames: the lower-cased titles of the cached milestones.
milestoneNames(cache) == {ToLowerName(title) : title \in cache}

\* The caches as Push holds them once loaded.  An empty label cache is filled
\* from the remote listing, keyed by the names as listed; an empty milestone
\* cache likewise, keyed by the lower-cased titles.  A failed listing leaves
\* the maps empty.
PushLoadCaches(cat, listFails) ==
  LET labelColors == labelCacheToColorMap(cat.labelCache)
      knownMilestones == milestoneNames(cat.milestoneCache)
      fetchLabels == labelColors = {}
      fetchMilestones == knownMilestones = {}
  IN  [labelColors |-> IF fetchLabels /\ ~listFails THEN cat.remoteLabels
                       ELSE labelColors,
       labelCache |-> IF fetchLabels /\ ~listFails THEN cat.remoteLabels
                      ELSE cat.labelCache,
       knownMilestones |-> IF fetchMilestones /\ ~listFails
                           THEN milestoneNames(cat.remoteMilestones)
                           ELSE knownMilestones,
       milestoneCache |-> IF fetchMilestones /\ ~listFails
                          THEN cat.remoteMilestones ELSE cat.milestoneCache,
       remoteLabels |-> cat.remoteLabels,
       remoteMilestones |-> cat.remoteMilestones,
       labelCacheUpdated |-> FALSE, milestoneCacheUpdated |-> FALSE,
       rep |-> [CatalogReport EXCEPT
                  !.listFailed = listFails /\ (fetchLabels \/ fetchMilestones)]]

\* The loop over neededLabels, in the order the map is ranged over.
RECURSIVE PushCreateLabelsBreak(_, _, _, _)
PushCreateLabelsBreak(cs, labels, dryRun, failing) ==
  IF labels = <<>> THEN cs
  ELSE LET label == Head(labels)
       IN  IF ToLowerName(label) \in cs.labelColors \/ dryRun
           THEN PushCreateLabelsBreak(cs, Tail(labels), dryRun, failing)
           ELSE IF label \in failing
           THEN [cs EXCEPT !.rep.calls = @ \cup {<<"label", label>>},
                           !.rep.warnings = @ \cup {<<"label", label>>}]
           ELSE PushCreateLabelsBreak(
                  [cs EXCEPT !.rep.calls = @ \cup {<<"label", label>>},
                             !.rep.created = @ \cup {<<"label", label>>},
                             !.remoteLabels = @ \cup {label},
                             !.labelColors = @ \cup {ToLowerName(label)},
                             !.labelCache = @ \cup {label},
                             !.labelCacheUpdated = TRUE],
                  Tail(labels), dryRun, failing)

RECURSIVE PushCreateLabels(_, _, _, _)
PushCreateLabels(cs, labels, dryRun, failing) ==
  IF labels = <<>> THEN cs
  ELSE LET label == Head(labels)
       IN  IF ToLowerName(label) \in cs.labelColors \/ dryRun
           THEN PushCreateLabels(cs, Tail(labels), dryRun, failing)
           ELSE IF label \in failing
           THEN \* client.CreateLabel failed: a warning, and on to the next
                PushCreateLabels(
                  [cs EXCEPT !.rep.calls = @ \cup {<<"label", label>>},
                             !.rep.warnings = @ \cup {<<"label", label>>}],
                  Tail(labels), dryRun, failing)
           ELSE PushCreateLabels(
                  [cs EXCEPT !.rep.calls = @ \cup {<<"label", label>>},
                             !.rep.created = @ \cup {<<"label", label>>},
                             !.remoteLabels = @ \cup {label},
                             !.labelColors = @ \cup {ToLowerName(label)},
                             !.labelCache = @ \cup {label},
                             !.labelCacheUpdated = TRUE],
                  Tail(labels), dryRun, failing)

\* The loop over neededMilestones.
RECURSIVE PushCreateMilestones(_, _, _, _)
PushCreateMilestones(cs, milestones, dryRun, failing) ==
  IF milestones = <<>> THEN cs
  ELSE LET milestone == Head(milestones)
       IN  IF ToLowerName(milestone) \in cs.knownMilestones \/ dryRun
           THEN PushCreateMilestones(cs, Tail(milestones), dryRun, failing)
           ELSE IF milestone \in failing
           THEN PushCreateMilestones(
                  [cs EXCEPT !.rep.calls = @ \cup {<<"milestone", milestone>>},
                             !.rep.warnings = @ \cup {<<"milestone", milestone>>}],
                  Tail(milestones), dryRun, failing)
           ELSE PushCreateMilestones(
                  [cs EXCEPT !.rep.calls = @ \cup {<<"milestone", milestone>>},
                             !.rep.created = @ \cup {<<"milestone", milestone>>},
                             !.remoteMilestones = @ \cup {milestone},
                             !.knownMilestones = @ \cup {ToLowerName(milestone)},
                             !.milestoneCache = @ \cup {milestone},
                             !.milestoneCacheUpdated = TRUE],
                  Tail(milestones), dryRun, failing)

\* saveLabelCache and saveMilestoneCache, when a name was created.
PushSaveCaches(cat, cs, needed, dryRun) ==
  [started |-> TRUE,
   labelCache |-> IF cs.labelCacheUpdated /\ ~dryRun THEN cs.labelCache
                  ELSE cat.labelCache,
   milestoneCache |-> IF cs.milestoneCacheUpdated /\ ~dryRun
                      THEN cs.milestoneCache ELSE cat.milestoneCache,
   remoteLabels |-> cs.remoteLabels,
   remoteMilestones |-> cs.remoteMilestones,
   rep |-> [cs.rep EXCEPT !.needed = needed, !.dryRun = dryRun]]

\* The labels the records in scope carry.
NeededLabels(filtered) ==
  UNION {SeqRange(filtered[i].Issue.labels) : i \in DOMAIN filtered}

\* Push as a whole: the caches are loaded, the missing labels and milestones
\* of the records in scope are created and the caches saved, then the issue
\* files are pushed.  The issue files of the model carry no milestone: the
\* milestones the records in scope name are an input.
PushWithCaches(arg, dryRun, fail, listFails, milestones, failing) ==
  /\ catalog.started
  /\ budget.pushes < MaxPushes
  /\ Steps < MaxCmds
  /\ arg \in FileNums(files) \cup {""}
  /\ (dryRun => fail = "none")
  /\ listFails => \/ labelCacheToColorMap(catalog.labelCache) = {}
                  \/ milestoneNames(catalog.milestoneCache) = {}
  /\ LET filtered == filterIssuesByArgs(loadLocalIssues(files), arg)
     IN  /\ SeqRange(milestones) \subseteq MilestoneNames
         /\ (filtered = <<>> => milestones = <<>>)
         /\ failing \subseteq NeededLabels(filtered) \cup SeqRange(milestones)
         /\ \E labels \in Orders(NeededLabels(filtered)) :
            catalog' =
              PushSaveCaches(
                catalog,
                PushCreateMilestones(
                  PushCreateLabels(PushLoadCaches(catalog, listFails),
                                   labels, dryRun, failing),
                  milestones, dryRun, failing),
                [labels |-> SeqRange(labels), milestones |-> SeqRange(milestones)],
                dryRun)
  /\ PushIssues(arg, dryRun, fail)
  /\ UNCHANGED <<probe, merge, trip, fetch, compare, lockVars>>

\* The caches and the remote catalogs before the first Push: the remote has
\* the label of record 1 under some spelling, and the caches are absent or
\* hold what an earlier Pull listed.
InitCatalog ==
  /\ InitStore
  /\ InitLock
  /\ probe = NoProbe
  /\ merge = NoMerge
  /\ trip = NoTrip
  /\ fetch = NoFetch
  /\ compare = NoCompare
  /\ \E remoteLabels \in {{"bug"}, {"Bug"}},
        remoteMilestones \in {{}, {"V1"}}, cached \in BOOLEAN :
       catalog = [started |-> TRUE,
                  labelCache |-> IF cached THEN remoteLabels ELSE {},
                  milestoneCache |-> IF cached THEN remoteMilestones ELSE {},
                  remoteLabels |-> remoteLabels,
                  remoteMilestones |-> remoteMilestones,
                  rep |-> CatalogReport]

NextCatalog ==
  \/ NewIssue("T1", TextA)
  \/ \E number \in AllIds : Edit(number, "labels")
  \/ \E arg \in AllIds \cup {""}, dryRun \in BOOLEAN, fail \in {"none", "create1"},
        listFails \in BOOLEAN,
        milestones \in {<<>>, <<"v1">>, <<"v1", "v2">>, <<"v2", "v1">>},
        failing \in {{}, {"bug"}, {"urgent"}, {"v2"}, {"v1"}, {"bug", "v2"}} :
        PushWithCaches(arg, dryRun, fail, listFails, milestones, failing)

SpecCatalog == InitCatalog /\ [][NextCatalog]_vars

\* ------------------------------- the equality checks and diffs on their own

EqualForConflictCheckFull(a, b) ==
  /\ EqualForConflictCheck(a, b)
  /\ NormalizeAll(a).assignees = NormalizeAll(b).assignees
  /\ a.milestone = b.milestone
  /\ NormalizeAll(a).projects = NormalizeAll(b).projects

\* diffIssue with the assignees and the milestone.
diffIssueFull(original, local) ==
  [title |-> diffIssue(original, local).title,
   body |-> diffIssue(original, local).body,
   labels |-> diffIssue(original, local).labels,
   assignees |-> diffStringSet(original.assignees, local.assignees),
   milestone |-> original.milestone # local.milestone,
   stateTransition |-> diffIssue(original, local).stateTransition,
   stateReason |-> diffIssue(original, local).stateReason]

hasEditsFull(change) ==
  \/ hasEdits(change)
  \/ change.milestone
  \/ change.assignees.add # {} \/ change.assignees.remove # {}

CompareBase ==
  [MergeBase EXCEPT !.labels = <<"bug", "urgent">>,
                    !.assignees = <<"bug", "urgent">>,
                    !.projects = <<"bug", "urgent">>,
                    !.blockedBy = <<"2", "3">>,
                    !.blocks = <<"2", "3">>]

ListFields == {"labels", "assignees", "projects", "blockedBy", "blocks"}

CosmeticKinds == {"order", "duplicate", "crlf", "leading", "trailing"}

\* Another spelling of a list or of the body of CompareBase; kind other is
\* another value.
Respelled(f, value, kind) ==
  IF f \in ListFields
  THEN CASE kind = "order" -> <<value[2], value[1]>>
         [] kind = "duplicate" -> value \o <<value[1]>>
         [] OTHER -> <<value[1]>>
  ELSE CASE kind = "crlf" -> <<"x", "\r", "\n">>
         [] kind = "leading" -> <<"\n", "x", "\n">>
         [] kind = "trailing" -> <<"x">>
         [] OTHER -> <<"a", "\n">>

\* Which fields are spelled differently from CompareBase, and how.
Respellings(max) ==
  UNION {{c \in [S -> CosmeticKinds \cup {"other"}] :
            \A f \in S : IF f = "body"
                         THEN c[f] \in {"crlf", "leading", "trailing", "other"}
                         ELSE c[f] \in {"order", "duplicate", "other"}} :
           S \in {T \in SUBSET (ListFields \cup {"body"}) : Cardinality(T) <= max}}

CompareInput(c) ==
  [f \in DOMAIN CompareBase |->
     IF f \in DOMAIN c THEN Respelled(f, CompareBase[f], c[f]) ELSE CompareBase[f]]

InitCompare ==
  /\ InitStore
  /\ InitLock
  /\ probe = NoProbe
  /\ merge = NoMerge
  /\ trip = NoTrip
  /\ fetch = NoFetch
  /\ catalog = NoCatalog
  /\ \E ac \in Respellings(MaxChanged), bc \in Respellings(1) :
       compare = [a |-> CompareInput(ac), b |-> CompareInput(bc),
                  how |-> {ac[f] : f \in DOMAIN ac} \cup {bc[f] : f \in DOMAIN bc},
                  strict |-> FALSE, conflict |-> FALSE, changes |-> NoFields,
                  diff |-> diffIssueFull(MergeBlank, MergeBlank),
                  done |-> FALSE]

\* EqualIgnoringSyncedAt, EqualForConflictCheck, ComputeChanges and diffIssue
\* on the two operands.
Compare ==
  /\ ~compare.done
  /\ compare' = [compare EXCEPT
                   !.strict = EqualIgnoringSyncedAtFull(compare.a, compare.b),
                   !.conflict = EqualForConflictCheckFull(compare.a, compare.b),
                   !.changes = ComputeChanges(compare.a, compare.b),
                   !.diff = diffIssueFull(compare.a, compare.b),
                   !.done = TRUE]
  /\ UNCHANGED <<storeVars, probe, merge, trip, fetch, catalog, lockVars>>

NextCompare == Compare

SpecCompare == InitCompare /\ [][NextCompare]_vars

\* ------------------------------------------------------------------ claims

FilesOf(fs, n) == {f \in fs : f.num = n}

\* The local file of n differs from its snapshot under strict equality, or
\* has no snapshot.
LocalChanged(n) ==
  /\ n \in FileNums(files)
  /\ \/ ~hasOriginalIssue(originals, n)
     \/ ~EqualIgnoringSyncedAt(findIssueByNumber(files, n).Issue,
                               readOriginalIssue(originals, n))

PullStep == budget'.pulls = budget.pulls + 1

PushStep == budget'.pushes = budget.pushes + 1

\* The text holds the reference token of id: "#", the id, and no further
\* letter or digit.
RefersTo(text, id) ==
  \E i \in 1..Len(text) :
    LET e == i + Len(Chars(id))
    IN  /\ e <= Len(text)
        /\ SubSeq(text, i, e) = <<"#">> \o Chars(id)
        /\ (e = Len(text) \/ text[e + 1] \notin Alnum)

\* The record refers to id in its texts or in a structured reference.
MentionsId(issue, id) ==
  \/ RefersTo(issue.title, id)
  \/ RefersTo(issue.body, id)
  \/ issue.parent = id
  \/ id \in SeqRange(issue.blockedBy)
  \/ id \in SeqRange(issue.blocks)

\* C1: a Pull without force leaves the file and the snapshot of every id
\* whose local file differs from its snapshot exactly as they were, whatever
\* the remote record holds.
C1_PullKeepsLocalChanges ==
  [][(PullStep /\ ~last'.opts[2]) =>
       \A n \in AllIds :
         LocalChanged(n) =>
           /\ FilesOf(files', n) = FilesOf(files, n)
           /\ originals'[n] = originals[n]]_vars

\* A Pull without force has reported a conflict for a record whose remote
\* side moved away from both the snapshot and the local file.
C1_Witness ==
  /\ last.cmd = "pull"
  /\ ~last.err
  /\ ~last.opts[2]
  /\ \E n \in last.conflicts :
       /\ hasOriginalIssue(originals, n)
       /\ ~EqualIgnoringSyncedAt(RemoteIssue(remote, n),
                                 readOriginalIssue(originals, n))
       /\ ~EqualIgnoringSyncedAt(RemoteIssue(remote, n),
                                 findIssueByNumber(files, n).Issue)

\* C2: a Push makes no remote call for an id it reports as a conflict and
\* changes neither the file nor the snapshot of that id.
C2_NoWriteOnConflict ==
  [][PushStep =>
       \A n \in last'.conflicts :
         /\ \A c \in last'.calls : c[2] # n
         /\ FilesOf(files', n) = FilesOf(files, n)
         /\ originals'[n] = originals[n]]_vars

\* C3: when a Push that promoted temporary ids has returned, no local record
\* refers to a promoted temporary id any more.
C3_AllReferencesRewritten ==
  (last.cmd = "push" /\ DOMAIN last.mapping # {}) =>
    \A t \in DOMAIN last.mapping :
      \A f \in files : ~MentionsId(Parse(f.content), t)

\* The text with every token of a permanent id the mapping hands out put
\* back to the temporary id it stands for.
RECURSIVE Unrewrite(_, _)
Unrewrite(s, mapping) ==
  IF s = <<>> THEN <<>>
  ELSE LET hits == {k \in DOMAIN mapping :
                      LET e == 1 + Len(Chars(mapping[k]))
                      IN  /\ e <= Len(s)
                          /\ SubSeq(s, 1, e) = <<"#">> \o Chars(mapping[k])
                          /\ (e = Len(s) \/ s[e + 1] \notin Alnum)}
       IN  IF hits # {}
           THEN LET k == CHOOSE h \in hits : TRUE
                IN  <<"#">> \o Chars(k)
                      \o Unrewrite(SubSeq(s, 2 + Len(Chars(mapping[k])), Len(s)),
                                   mapping)
           ELSE <<Head(s)>> \o Unrewrite(Tail(s), mapping)

\* Structured references outside the mapping keep their place and value.
RefsKept(in, out, mapping) ==
  /\ Len(out) = Len(in)
  /\ \A i \in 1..Len(in) : in[i] \notin DOMAIN mapping => out[i] = in[i]

\* C4: applyMapping changes nothing but references to mapped ids: putting
\* the temporary ids back gives the input texts, a token of an unmapped
\* temporary id (#T10 when only T1 is mapped) stays, unmapped structured
\* references and every other field stay, and a record without a reference
\* to a mapped id is returned as it was and reported as not changed.
C4_RewritesOnlyMappedReferences ==
  probe.applied =>
    LET in == probe.in
        out == probe.out
        m == probe.mapping
    IN  /\ Unrewrite(out.title, m) = in.title
        /\ Unrewrite(out.body, m) = in.body
        /\ \A t \in TempIds \ DOMAIN m :
             /\ RefersTo(in.title, t) => RefersTo(out.title, t)
             /\ RefersTo(in.body, t) => RefersTo(out.body, t)
        /\ (in.parent \notin DOMAIN m => out.parent = in.parent)
        /\ RefsKept(in.blockedBy, out.blockedBy, m)
        /\ RefsKept(in.blocks, out.blocks, m)
        /\ [out EXCEPT !.title = in.title, !.body = in.body,
                       !.parent = in.parent, !.blockedBy = in.blockedBy,
                       !.blocks = in.blocks] = in
        /\ ((\A k \in DOMAIN m : ~MentionsId(in, k)) =>
              (out = in /\ ~probe.changed))

\* T1 is mapped and T10 is not: the title's #T1 was rewritten, its #T10 and
\* the body's #T10 were not.
C4_Witness ==
  /\ probe.applied
  /\ DOMAIN probe.mapping = {"T1"}
  /\ probe.in.title = RefBody
  /\ probe.out.title = <<"#", "3", " ", "#", "T", "1", "0", "\n">>
  /\ RefersTo(probe.in.body, "T10")
  /\ probe.out.body = probe.in.body
  /\ probe.changed

\* Once a record carries a permanent id, a file of that id stays unless the
\* operator deletes it.
PermanentIdsKept ==
  \A n \in PermIds :
    n \in FileNums(files) =>
      \/ n \in FileNums(files')
      \/ last'.cmd = "remove" /\ last'.opts[1] = n

\* C5 as stated: at most one create request is ever issued for a temporary
\* record, and a permanent id is never changed.
C5_OneCreateRequest ==
  [][(\A t \in TempIds : createRequests'[t] <= 1) /\ PermanentIdsKept]_vars

\* C5: at most one create request ever succeeds for a temporary record; the
\* record then carries the permanent id, no further create request is issued
\* for it, and a permanent id is never changed.
C5_PromotedOnce ==
  [][/\ \A t \in TempIds :
          /\ Cardinality(createdFor'[t]) <= 1
          /\ createdFor'[t] # {} => t \notin FileNums(files')
          /\ (createdFor[t] = {} /\ createdFor'[t] # {}) =>
               createdFor'[t] \subseteq FileNums(files')
          /\ createdFor[t] # {} => createRequests'[t] = createRequests[t]
     /\ PermanentIdsKept]_vars

\* A record was promoted by the second create request issued for it, after a
\* Push that stopped with an error.
C5_Witness ==
  \E t \in TempIds : createRequests[t] = 2 /\ createdFor[t] # {}

\* C6: no two files of the mirror carry the same id.
C6_OneFilePerId ==
  \A f, g \in files : f.num = g.num => f = g

\* A promoted record lies in the closed directory under a title that was
\* edited: promotion, a state change and a title change have renamed files.
C6_Witness ==
  \E t \in TempIds :
    \E f \in files :
      /\ f.num \in createdFor[t]
      /\ f.dir = "closed"
      /\ f.content.title = TextB

\* C7: when a Push that promoted temporary ids has returned, no snapshot is
\* kept under a promoted temporary id and no snapshot refers to one.
C7_NoTemporaryIdInSnapshots ==
  (last.cmd = "push" /\ DOMAIN last.mapping # {}) =>
    \A t \in DOMAIN last.mapping :
      /\ originals[t] = NoFile
      /\ \A n \in AllIds :
           originals[n] # NoFile => ~MentionsId(Parse(originals[n]), t)

\* Two Pulls in a row, both without error and with the same options.
SecondPull ==
  /\ PullStep
  /\ last.cmd = "pull"
  /\ ~last.err
  /\ ~last'.err
  /\ last'.opts = last.opts

\* C8 as stated: the second of two Pulls in a row writes nothing and
\* classifies every record it fetches as unchanged.
C8_SecondPullAllUnchanged ==
  [][SecondPull =>
       /\ files' = files
       /\ originals' = originals
       /\ last'.written = {}
       /\ last'.conflicts = {}]_vars

\* When the first of the two Pulls lost none of its lookups, the second
\* writes nothing; every record it fetches is classified unchanged, or
\* conflict when its local file differed from its snapshot before the run.
C8_SecondPullWritesNothing ==
  [][(SecondPull /\ last.failed = {}) =>
       /\ files' = files
       /\ originals' = originals
       /\ last'.written = {}
       /\ \A n \in last'.conflicts : LocalChanged(n)]_vars

\* Two Pulls of everything were the only commands, and the second found
\* every remote record unchanged.
C8_Witness ==
  /\ Steps = 2
  /\ budget.pulls = 2
  /\ last.cmd = "pull"
  /\ ~last.err
  /\ last.opts[1] = "all"
  /\ last.written = {}
  /\ last.unchanged = RemoteNums(remote)
  /\ FileNums(files) = RemoteNums(remote)

\* A process is at work on the local store.
InStore(p) == pc[p] \in {"config", "body"}

\* C9: a process reads or writes the local store only while it holds the
\* lock, so no two processes are at work on the store at the same time.
C9_StoreOnlyUnderLock ==
  /\ \A p \in Procs : InStore(p) => lockHolder = p
  /\ \A p, q \in Procs : (InStore(p) /\ InStore(q)) => p = q

\* C10: a process that has returned does not hold the lock, and with every
\* command returned the lock is free.
C10_LockReleasedOnExit ==
  /\ \A p \in Procs : pc[p] \in {"idle", "done"} => lockHolder # p
  /\ (\A p \in Procs : pc[p] \in {"idle", "done"}) => lockHolder = 0

\* One command returned an error after it had the lock, and a later command
\* of the other process holds the lock.
C10_Witness ==
  \E p, q \in Procs :
    /\ pc[p] = "done"
    /\ exitOf[p] = "error"
    /\ pc[q] = "body"
    /\ lockHolder = q

\* The local file of the permanent id n differs from its snapshot and the
\* remote record equals the snapshot in every field the conflict check
\* compares.
OnlyLocalChanged(n) ==
  /\ ~IsLocal(n)
  /\ n \in RemoteNums(remote)
  /\ hasOriginalIssue(originals, n)
  /\ LocalChanged(n)
  /\ EqualForConflictCheck(RemoteIssue(remote, n), readOriginalIssue(originals, n))

\* A Push that is no dry run has n in its scope.
PushCovers(n) ==
  /\ PushStep
  /\ ~last'.opts[2]
  /\ last'.opts[1] \in {"", n}

\* C11 as stated: a Push that returns without error reports no conflict for a
\* record that changed only locally, and afterwards the remote record equals
\* the local one in every field the conflict check compares.
C11_PushAppliesLocalChanges ==
  [][\A n \in PermIds :
       (PushCovers(n) /\ ~last'.err /\ OnlyLocalChanged(n)) =>
         /\ n \notin last'.conflicts
         /\ EqualForConflictCheck(RemoteIssue(remote', n),
                                  findIssueByNumber(files', n).Issue)]_vars

\* The ids a Pull reconciled: every fetched record is classified as a
\* conflict, as unchanged, or is written.
Reconciled(rep) == rep.conflicts \cup rep.unchanged \cup rep.written

\* The local file of n is strictly equal to its snapshot and the remote
\* record differs from the snapshot.
OnlyRemoteChanged(n) ==
  /\ n \in FileNums(files)
  /\ hasOriginalIssue(originals, n)
  /\ ~LocalChanged(n)
  /\ n \in RemoteNums(remote)
  /\ ~EqualIgnoringSyncedAt(RemoteIssue(remote, n), readOriginalIssue(originals, n))

C13_SnapshotKeptOnEditError ==
  [][PushStep =>
       \A n \in PermIds \cap FileNums(files) :
         <<"edit", n>> \in last'.warnings => originals'[n] = originals[n]]_vars

\* The flags a FieldSet has set.
FlagsOf(fieldSet) == {f \in DOMAIN fieldSet : fieldSet[f]}

\* C14: ThreeWayMerge returns OK exactly when the changes of local and the
\* changes of remote against base share no flag; when they share one, the
\* conflicting fields are exactly the shared flags.
C14_MergeOkIffNoSharedFlag ==
  merge.done =>
    LET shared == FlagsOf(ComputeChanges(merge.base, merge.local))
                    \cap FlagsOf(ComputeChanges(merge.base, merge.remote))
    IN  /\ merge.result.OK = (shared = {})
        /\ ~merge.result.OK => FlagsOf(merge.result.ConflictingFields) = shared

\* Local and remote changed the title to different values, and local the
\* state as well: the merge is refused with the title as the one conflicting
\* field.
C14_Witness ==
  /\ merge.done
  /\ ~merge.result.OK
  /\ FlagsOf(merge.result.ConflictingFields) = {"Title"}
  /\ merge.local.title # merge.remote.title
  /\ merge.local.state = "closed"

\* The field of the issue each flag of a FieldSet stands for.
FieldKey ==
  [Title |-> "title", Labels |-> "labels", Assignees |-> "assignees",
   Milestone |-> "milestone", IssueType |-> "issueType", Projects |-> "projects",
   State |-> "state", Parent |-> "parent", BlockedBy |-> "blockedBy",
   Blocks |-> "blocks", Body |-> "body"]

\* C15: when ThreeWayMerge succeeds, the merged issue carries local's value in
\* every field flagged in ComputeChanges(base, local) and remote's value, in
\* its normalised form, in every other field.
C15_MergedTakesLocalChangesOverRemote ==
  (merge.done /\ merge.result.OK) =>
    LET flagged == FlagsOf(ComputeChanges(merge.base, merge.local))
        merged == merge.result.Merged
        theirs == NormalizeAll(merge.remote)
    IN  /\ \A F \in DOMAIN FieldKey :
             merged[FieldKey[F]] = IF F \in flagged THEN merge.local[FieldKey[F]]
                                   ELSE theirs[FieldKey[F]]
        /\ merged.number = theirs.number
        /\ merged.stateReason = theirs.stateReason
        /\ merged.syncedAt = theirs.syncedAt

\* Local changed the title, remote the body and the spelling of the labels:
\* the merged issue has local's title over remote's body and labels.
C15_Witness ==
  /\ merge.done
  /\ merge.result.OK
  /\ merge.local.title = TextB
  /\ merge.remote.title = TextA
  /\ merge.remote.body = <<"a", "\n">>
  /\ merge.remote.labels = <<" bug", "bug">>
  /\ merge.result.Merged.title = TextB
  /\ merge.result.Merged.body = <<"a", "\n">>
  /\ merge.result.Merged.labels = <<"bug">>

\* C16 as stated: an issue written to its file and parsed back is strictly
\* equal to the issue written, synced_at aside.
C16_RoundTrip ==
  trip.stage = "parsed" => EqualIgnoringSyncedAtFull(trip.parsed, trip.issue)

\* The id has a snapshot and no local file.
Orphaned(n) == hasOriginalIssue(originals, n) /\ n \notin FileNums(files)

\* C17 as stated: an unscoped Pull that returns without error leaves every
\* permanent id that had a snapshot and no local file with a local file equal
\* to the remote record, reports no other id as restored, and creates no file
\* for a temporary id that has a snapshot.
C17_PullRestoresDeleted ==
  [][(PullStep /\ ~last'.err /\ last'.opts[1] # "args") =>
       /\ \A n \in PermIds :
            Orphaned(n) =>
              /\ n \in FileNums(files')
              /\ EqualIgnoringSyncedAt(findIssueByNumber(files', n).Issue,
                                       RemoteIssue(remote', n))
       /\ \A n \in last'.restored : Orphaned(n) /\ ~IsLocal(n)
       /\ \A n \in TempIds : Orphaned(n) => n \notin FileNums(files')]_vars

\* C18: a Pull with force that returns without error reports no conflict, and
\* every record it reconciles whose local file differed from the remote record
\* is written: afterwards its file and its snapshot equal the remote record.
C18_ForcePullOverwrites ==
  [][(PullStep /\ ~last'.err /\ last'.opts[2]) =>
       /\ last'.conflicts = {}
       /\ \A n \in PermIds :
            (/\ n \in Reconciled(last')
             /\ n \in FileNums(files)
             /\ ~EqualIgnoringSyncedAt(findIssueByNumber(files, n).Issue,
                                       RemoteIssue(remote, n))) =>
              /\ n \in last'.written
              /\ Cardinality(FilesOf(files', n)) = 1
              /\ EqualIgnoringSyncedAt(findIssueByNumber(files', n).Issue,
                                       RemoteIssue(remote', n))
              /\ hasOriginalIssue(originals', n)
              /\ EqualIgnoringSyncedAt(readOriginalIssue(originals', n),
                                       RemoteIssue(remote', n))]_vars

\* Record 1 was pulled, its title edited, and a Pull with force has put the
\* remote title back.
C18_Witness ==
  /\ Steps = 3
  /\ budget.pulls = 2
  /\ budget.edits = 1
  /\ last.cmd = "pull"
  /\ last.opts[2]
  /\ ~last.err
  /\ "1" \in last.written
  /\ last.conflicts = {}
  /\ findIssueByNumber(files, "1").Issue.title = TextA
  /\ readOriginalIssue(originals, "1").title = TextA

\* Some field other than synced_at and the state reason differs after
\* normalisation.
ComparedFieldDiffers(a0, b0) ==
  LET a == Normalize(a0)
      b == Normalize(b0)
  IN  \/ a.number # b.number
      \/ a.title # b.title
      \/ a.labels # b.labels
      \/ a.issueType # b.issueType
      \/ a.state # b.state
      \/ a.parent # b.parent
      \/ a.blockedBy # b.blockedBy
      \/ a.blocks # b.blocks
      \/ a.body # b.body

\* C19: of the locally changed records with a permanent id and a snapshot
\* that a Push fetches (a dry run fetches none), those it reports as conflicts
\* are exactly those whose remote record differs from the snapshot in a field
\* other than synced_at and the state reason.
C19_PushConflictIffRemoteDiffers ==
  [][\A n \in PermIds \cap FileNums(files) :
       PushCovers(n) =>
         /\ n \in last'.conflicts =>
              /\ hasOriginalIssue(originals, n)
              /\ ComparedFieldDiffers(RemoteIssue(remote, n),
                                      readOriginalIssue(originals, n))
         /\ (/\ ~last'.err
             /\ LocalChanged(n)
             /\ hasOriginalIssue(originals, n)
             /\ n \in RemoteNums(remote)
             /\ ComparedFieldDiffers(RemoteIssue(remote, n),
                                     readOriginalIssue(originals, n))) =>
              n \in last'.conflicts]_vars

\* Record 1, whose remote record differs from its snapshot in the state
\* reason alone, was edited locally and pushed: no conflict, the remote record
\* has the local title.
C19_Witness ==
  /\ budget.edits = 1
  /\ budget.pushes = 1
  /\ budget.remoteEdits = 0
  /\ last.cmd = "push"
  /\ ~last.err
  /\ last.conflicts = {}
  /\ "1" \in last.written
  /\ remote["1"].stateReason = "COMPLETED"
  /\ readOriginalIssue(originals, "1").stateReason = ""
  /\ remote["1"].title = TextB
  /\ findIssueByNumber(files, "1").Issue.title = TextB

\* C20: the main flow of an unscoped Pull is at the reconciliation loop only
\* when both fetch tasks have sent their result and the main flow has received
\* both.
C20_LoopAfterBothFetches ==
  fetch.main = "loop" =>
    /\ fetch.list = "done"
    /\ fetch.batch = "done"
    /\ fetch.received = {"list", "batch"}

\* The loop is reached with record 1 from the listing and record 2 from the
\* batched lookup.
C20_Witness ==
  /\ fetch.main = "loop"
  /\ fetch.toFetch = {"1", "2"}
  /\ fetch.received = {"list", "batch"}
  /\ fetch.remoteIssues = {"1", "2"}
  /\ ~fetch.isIncremental

\* ------------------------------------------------- after a Pull of everything

\* The store after Pull --all on an empty directory: every remote record has
\* its file and its snapshot.
Pulled ==
  PullRun({}, [n \in AllIds |-> NoFile], InitRemote,
          <<"all", FALSE, "">>, RemoteNums(InitRemote), {})

InitPulled ==
  /\ files = Pulled.files
  /\ originals = Pulled.originals
  /\ remote = InitRemote
  /\ hasLastFullPull = TRUE
  /\ changedSince = {}
  /\ usedTemps = {}
  /\ createdFor = [t \in TempIds |-> {}]
  /\ createRequests = [t \in TempIds |-> 0]
  /\ last = Report("init", <<>>)
  /\ budget = [edits |-> 0, remoteEdits |-> 0, pulls |-> 0, pushes |-> 0,
               stateCmds |-> 0]
  /\ InitLock
  /\ probe = NoProbe
  /\ InitAux

\* Edits on both sides, then the two reconciliation commands.
NextPulled ==
  \/ \E id \in {"T1"}, title \in {TextA} : NewIssue(id, title)
  \/ \E number \in AllIds, kind \in EditKinds : Edit(number, kind)
  \/ \E number \in PermIds, kind \in RemoteEditKinds : RemoteEdit(number, kind)
  \/ \E mode \in PullModes, force \in BOOLEAN, arg \in PermIds \cup {""},
        fails \in BOOLEAN, batchFails \in BOOLEAN :
        Pull(mode, force, arg, fails, batchFails)
  \/ \E arg \in AllIds \cup {""}, dryRun \in BOOLEAN, fail \in PushFails :
        Push(arg, dryRun, fail)

SpecPulled == InitPulled /\ [][NextPulled]_vars

\* ------------------------------------- after a change on the remote side

\* The store after Pull --all, and the service after a third party changed
\* one record since.
InitChanged ==
  /\ files = Pulled.files
  /\ originals = Pulled.originals
  /\ \E number \in RemoteNums(InitRemote), kind \in RemoteEditKinds :
       /\ RemoteEdited(InitRemote[number], kind) # InitRemote[number]
       /\ remote = [InitRemote EXCEPT ![number] = RemoteEdited(@, kind)]
       /\ changedSince = {number}
  /\ hasLastFullPull = TRUE
  /\ usedTemps = {}
  /\ createdFor = [t \in TempIds |-> {}]
  /\ createRequests = [t \in TempIds |-> 0]
  /\ last = Report("init", <<>>)
  /\ budget = [edits |-> 0, remoteEdits |-> 0, pulls |-> 0, pushes |-> 0,
               stateCmds |-> 0]
  /\ InitLock
  /\ probe = NoProbe
  /\ InitAux

\* ------------------------- after a remote state change and a Pull of everything

\* A record was closed on the remote side, or closed and reopened, and then
\* everything was pulled into an empty directory.
InitReopened ==
  /\ \E number \in RemoteNums(InitRemote), reopened \in BOOLEAN :
       LET closed == [InitRemote EXCEPT ![number] = RemoteEdited(@, "close")]
           r == IF reopened
                THEN [closed EXCEPT ![number] = RemoteEdited(@, "close")]
                ELSE closed
           pulled == PullRun({}, [n \in AllIds |-> NoFile], r,
                             <<"all", FALSE, "">>, RemoteNums(r), {})
       IN  /\ files = pulled.files
           /\ originals = pulled.originals
           /\ remote = r
  /\ hasLastFullPull = TRUE
  /\ changedSince = {}
  /\ usedTemps = {}
  /\ createdFor = [t \in TempIds |-> {}]
  /\ createRequests = [t \in TempIds |-> 0]
  /\ last = Report("init", <<>>)
  /\ budget = [edits |-> 0, remoteEdits |-> 0, pulls |-> 0, pushes |-> 0,
               stateCmds |-> 0]
  /\ InitLock
  /\ probe = NoProbe
  /\ InitAux

\* The state commands among local edits, Pushes and Pulls.
NextReopened ==
  \/ \E number \in PermIds, kind \in EditKinds : Edit(number, kind)
  \/ \E number \in PermIds, reason \in CloseReasons : Close(number, reason)
  \/ \E number \in PermIds : Reopen(number)
  \/ \E mode \in {"plain", "all"}, force \in BOOLEAN :
        Pull(mode, force, "", FALSE, FALSE)
  \/ \E dryRun \in BOOLEAN : Push("", dryRun, "none")

SpecReopened == InitReopened /\ [][NextReopened]_vars

\* Local edits and unscoped Pulls, every lookup of which is answered.
NextChanged ==
  \/ \E number \in PermIds, kind \in {"title", "labels"} : Edit(number, kind)
  \/ \E number \in PermIds : Remove(number)
  \/ \E mode \in {"plain", "full", "all", LabelMode}, force \in BOOLEAN,
        fails \in BOOLEAN : Pull(mode, force, "", fails, FALSE)

SpecChanged == InitChanged /\ [][NextChanged]_vars

\* ------------------------------------------------------------ claims C21..C30

\* C21: a Pull or Push in which a required remote step had a transport failure
\* (the initial fetch of Pull, or issue creation, the remote fetch, a state
\* transition or the batched edit of Push) returns an error.
C21_TransportFailureIsError ==
  [][(PullStep \/ PushStep) /\ last'.failed # {} => last'.err]_vars

\* The name is known to the Push: cached before or after it under some
\* spelling, or listed by the remote under its lower-cased spelling.
KnownName(kind, name) ==
  LET cached == IF kind = "label"
                THEN catalog.labelCache \cup catalog'.labelCache
                ELSE catalog.milestoneCache \cup catalog'.milestoneCache
      listed == IF kind = "label" THEN catalog.remoteLabels
                ELSE {ToLowerName(m) : m \in catalog.remoteMilestones}
  IN  ToLowerName(name) \in {ToLowerName(c) : c \in cached} \cup listed

NeededNames(rep) ==
  ({"label"} \X rep.needed.labels) \cup ({"milestone"} \X rep.needed.milestones)

\* C22: in a Push that is no dry run, a label or milestone whose creation
\* fails is reported and stays out of the cache; every other name the records
\* in scope need is created or is known already; and unless an issue call
\* fails, Push returns no error and promotes every temporary id in scope.
C22_FailedNameSkipped ==
  [][(PushStep /\ ~catalog'.rep.dryRun) =>
       LET rep == catalog'.rep
       IN  /\ rep.warnings \subseteq rep.calls
           /\ rep.warnings \cap rep.created = {}
           /\ \A w \in rep.warnings :
                /\ w[1] = "label" => w[2] \notin catalog'.labelCache \ catalog.labelCache
                /\ w[1] = "milestone" =>
                     w[2] \notin catalog'.milestoneCache \ catalog.milestoneCache
           /\ \A n \in NeededNames(rep) :
                n \in rep.created \/ n \in rep.warnings \/ KnownName(n[1], n[2])
           /\ (last'.failed = {} /\ FileNums(files) # {}) =>
                /\ ~last'.err
                /\ \A t \in TempIds :
                     (t \in FileNums(files) /\ last'.opts[1] \in {"", t})
                       => createdFor'[t] # {}]_vars

\* The creation of label urgent failed; the other label of the record and a
\* milestone were created all the same and the record was promoted.
C22_Witness ==
  /\ last.cmd = "push"
  /\ ~last.err
  /\ createdFor["T1"] # {}
  /\ catalog.rep.needed.labels = {" bug", "bug", "urgent"}
  /\ catalog.rep.warnings = {<<"label", "urgent">>}
  /\ <<"label", " bug">> \in catalog.rep.created
  /\ <<"milestone", "v2">> \in catalog.rep.created
  /\ "urgent" \notin catalog.labelCache
  /\ "v2" \in catalog.milestoneCache

LowerNames(S) == {ToLowerName(n) : n \in S}

ReferenceReads(old, new, t, p) ==
  /\ ~MentionsId(new, t)
  /\ RefersTo(old.title, t) => RefersTo(new.title, p)
  /\ RefersTo(old.body, t) => RefersTo(new.body, p)
  /\ old.parent = t => new.parent = p
  /\ t \in SeqRange(old.blockedBy) => p \in SeqRange(new.blockedBy)
  /\ t \in SeqRange(old.blocks) => p \in SeqRange(new.blocks)

\* C23: after a Push that promoted two or more temporary ids, every local
\* file that referred to one of them, in title, body, parent, blocked_by or
\* blocks, refers to its permanent id instead, and no file refers to a
\* promoted temporary id.
C23_MutualReferencesRewritten ==
  [][(PushStep /\ Cardinality(DOMAIN last'.mapping) >= 2) =>
       \A f \in FilesOf(files, "T1") \cup FilesOf(files, "T10") :
         LET n == IF f.num \in DOMAIN last'.mapping
                  THEN last'.mapping[f.num] ELSE f.num
         IN  /\ n \in FileNums(files')
             /\ \A t \in DOMAIN last'.mapping :
                  ReferenceReads(Parse(f.content),
                                 findIssueByNumber(files', n).Issue,
                                 t, last'.mapping[t])]_vars

\* T1 named T10 as its parent and T10 referred to T1 in its body; one Push
\* promoted both, and the files of 3 and 4 refer to each other.
C23_Witness ==
  /\ last.cmd = "push"
  /\ DOMAIN last.mapping = {"T1", "T10"}
  /\ last.mapping["T1"] = "3"
  /\ last.mapping["T10"] = "4"
  /\ findIssueByNumber(files, "3").Issue.parent = "4"
  /\ RefersTo(findIssueByNumber(files, "4").Issue.body, "3")
  /\ RefersTo(findIssueByNumber(files, "4").Issue.body, "4")

CloseStep == last'.cmd = "close" /\ budget'.stateCmds = budget.stateCmds + 1

ReopenStep == last'.cmd = "reopen" /\ budget'.stateCmds = budget.stateCmds + 1

\* The one file of n is in directory dir and its front matter says the same.
OnlyFileIn(fs, n, dir) ==
  /\ Cardinality(FilesOf(fs, n)) = 1
  /\ \A f \in FilesOf(fs, n) : f.dir = dir /\ Parse(f.content).state = dir

\* C24 as stated: after Close(id) the only file of id is in the closed
\* directory with state closed; after Reopen(id) its only file is in the open
\* directory with state open and no state reason; and either command on a
\* record that is already in the target state changes no file.
C24_CloseReopenMoveTheFile ==
  [][/\ CloseStep =>
          /\ OnlyFileIn(files', last'.opts[1], "closed")
          /\ OnlyFileIn(files, last'.opts[1], "closed") => files' = files
     /\ ReopenStep =>
          /\ OnlyFileIn(files', last'.opts[1], "open")
          /\ \A f \in FilesOf(files', last'.opts[1]) :
               Parse(f.content).stateReason = ""
          /\ OnlyFileIn(files, last'.opts[1], "open") => files' = files]_vars

\* C24: after Close(id) the only file of id is in the closed directory with
\* state closed; after Reopen(id) its only file is in the open directory with
\* state open, and with no state reason when the record was not open before;
\* and either command on a record that is already in the target state changes
\* no file, the state reason of an open record included.
C24_ReopenClearsReasonOfClosed ==
  [][/\ CloseStep =>
          /\ OnlyFileIn(files', last'.opts[1], "closed")
          /\ OnlyFileIn(files, last'.opts[1], "closed") => files' = files
     /\ ReopenStep =>
          /\ OnlyFileIn(files', last'.opts[1], "open")
          /\ ~OnlyFileIn(files, last'.opts[1], "open") =>
               \A f \in FilesOf(files', last'.opts[1]) :
                 Parse(f.content).stateReason = ""
          /\ OnlyFileIn(files, last'.opts[1], "open") => files' = files]_vars

\* Record 1 was closed on the remote with a reason and pulled; Reopen moved
\* its file back to the open directory and cleared the reason.
C24_Witness ==
  /\ last.cmd = "reopen"
  /\ last.written = {"1"}
  /\ readOriginalIssue(originals, "1").state = "closed"
  /\ readOriginalIssue(originals, "1").stateReason # ""
  /\ OnlyFileIn(files, "1", "open")
  /\ findIssueByNumber(files, "1").Issue.stateReason = ""

\* The file of n differs from its snapshot both in the state and in a field
\* the batched edit carries.
BothPending(n) ==
  /\ n \in FileNums(files)
  /\ hasOriginalIssue(originals, n)
  /\ LET change == diffIssue(readOriginalIssue(originals, n),
                             findIssueByNumber(files, n).Issue)
     IN  change.stateTransition # "" /\ hasEdits(change)

EditCalls(log, n) == {i \in 1..Len(log) : log[i] = <<"edit", n>>}

StateCalls(log, n) ==
  {i \in 1..Len(log) : log[i] \in {<<"close", n>>, <<"reopen", n>>}}

\* C25: within one Push every close or reopen call for an id is sent before
\* the batched edit that carries the id, and when the pending change of the id
\* holds both a state change and field edits, the batched edit with its edits
\* is sent only after its close or reopen call.
C25_StateCallBeforeEdit ==
  [][PushStep =>
       \A n \in PermIds :
         /\ \A i \in EditCalls(last'.log, n), j \in StateCalls(last'.log, n) : j < i
         /\ (BothPending(n) /\ EditCalls(last'.log, n) # {})
              => StateCalls(last'.log, n) # {}]_vars

\* Record 1 was retitled and closed locally; Push sent the close call, then
\* the batched edit.
C25_Witness ==
  /\ last.cmd = "push"
  /\ ~last.err
  /\ last.log = <<<<"close", "1">>, <<"edit", "1">>>>
  /\ remote["1"].state = "closed"
  /\ remote["1"].title = TextB

\* C26: two issues that differ only in the order or the duplication of the
\* entries of labels, assignees, projects, blocked_by or blocks, or in the
\* line endings, the leading blank lines or the trailing newline of the body,
\* are equal under EqualIgnoringSyncedAt and under EqualForConflictCheck, and
\* ComputeChanges and diffIssue find no change between them.
C26_ComparedAsNormalized ==
  (compare.done /\ compare.how \subseteq CosmeticKinds) =>
    /\ compare.strict
    /\ compare.conflict
    /\ IsEmpty(compare.changes)
    /\ ~hasEditsFull(compare.diff)
    /\ compare.diff.stateTransition = ""
    /\ compare.diff.stateReason = ""

\* Every field of n that the local file changed against the snapshot holds, on
\* the remote after the step, the value of the file Push wrote back (the body
\* with its temporary references rewritten).
EditKept(n) ==
  LET local == findIssueByNumber(files, n).Issue
      original == readOriginalIssue(originals, n)
      kept == findIssueByNumber(files', n).Issue
  IN  (\E i \in DOMAIN loadLocalIssues(files) :
         loadLocalIssues(files)[i].Issue.number = n) =>
        /\ original.title # local.title => remote'[n].title = kept.title
        /\ original.body # local.body => remote'[n].body = kept.body
        /\ sortedStrings(original.labels) # sortedStrings(local.labels)
           => sortedStrings(remote'[n].labels) = sortedStrings(local.labels)

PullGot ==
  LET mode == last'.opts[1]
      isIncremental == hasLastFullPull /\ mode = "plain"
      listed == ListedNums(remote, mode, isIncremental)
  IN  IF mode = "args" THEN {last'.opts[3]}
      ELSE listed \cup (IF mode \in {"plain", "full"} /\ ~isIncremental
                        THEN {n \in FileNums(files) \cap RemoteNums(remote) : ~IsLocal(n)}
                        ELSE {})

\* C28: a Pull or Push that reports a conflict, and in which no required call
\* fails, returns no error; a Pull classifies every other record it got as
\* unchanged or writes it, and a Push writes every other locally changed
\* record of its scope that the service has and creates every record with a
\* temporary id of its scope.
C28_ConflictDoesNotStopTheRest ==
  [][((PullStep \/ PushStep) /\ last'.conflicts # {} /\ last'.failed = {}) =>
       /\ ~last'.err
       /\ PullStep =>
            \A n \in PullGot \ last'.conflicts :
              \/ n \in last'.unchanged
              \/ /\ n \in last'.written
                 /\ EqualIgnoringSyncedAt(findIssueByNumber(files', n).Issue,
                                          RemoteIssue(remote', n))
       /\ PushStep =>
            /\ \A n \in (PermIds \cap RemoteNums(remote)) \ last'.conflicts :
                 (PushCovers(n) /\ LocalChanged(n)) => n \in last'.written
            /\ \A t \in TempIds \cap FileNums(files) :
                 PushCovers(t) => t \in DOMAIN last'.mapping]_vars

\* A Push found record 1 changed on both sides and reported the conflict; the
\* title edit of record 2 went to the remote and record 2 was written.
C28_Witness ==
  /\ last.cmd = "push"
  /\ ~last.err
  /\ last.conflicts = {"1"}
  /\ last.written = {"2"}
  /\ remote["2"].title = TextA
  /\ remote["1"].title = TextX
  /\ findIssueByNumber(files, "1").Issue.title = TextB

\* A Pull reported the conflict of the locally edited record 1 and wrote
\* record 2, which changed on the remote side.
C28_PullCase ==
  /\ last.cmd = "pull"
  /\ ~last.err
  /\ last.conflicts = {"1"}
  /\ last.written = {"2"}
  /\ findIssueByNumber(files, "2").Issue.title = TextX

\* The text holds a carriage return directly followed by a newline.
HasCRLF(text) ==
  \E i \in 1..(Len(text) - 1) : text[i] = "\r" /\ text[i + 1] = "\n"

\* The text is empty, or has no CRLF, does not begin with a newline and ends
\* with one newline and no more.
NormalizedBody(text) ==
  \/ text = <<>>
  \/ /\ ~HasCRLF(text)
     /\ Head(text) # "\n"
     /\ text[Len(text)] = "\n"
     /\ (Len(text) > 1 => text[Len(text) - 1] # "\n")

\* C30: the body normalizeBody makes of an issue's body, as WriteFile writes
\* it, is empty or has no CRLF sequence, no leading blank line and exactly one
\* trailing newline.
C30_NormalizedBodyShape ==
  trip.stage \in {"written", "parsed"} =>
    NormalizedBody(normalizeBody(trip.issue.body))

\* The same without the two conjuncts the code does not establish: empty, or
\* no leading newline and a newline at the end.
C30_TrimmedAndTerminated ==
  trip.stage \in {"written", "parsed"} =>
    LET text == normalizeBody(trip.issue.body)
    IN  \/ text = <<>>
        \/ Head(text) # "\n" /\ text[Len(text)] = "\n"

\* Without a carriage return that no newline follows, and without a blank
\* line at the end of the input, the stated shape is reached.
C30_CleanInputs ==
  (/\ trip.stage \in {"written", "parsed"}
   /\ \A i \in 1..Len(trip.issue.body) :
        /\ trip.issue.body[i] = "\r" =>
             (i < Len(trip.issue.body) /\ trip.issue.body[i + 1] = "\n")
        /\ (i > 1 /\ i = Len(trip.issue.body)) =>
             ~(trip.issue.body[i] = "\n" /\ trip.issue.body[i - 1] \in {"\n", "\r"}))
  => NormalizedBody(normalizeBody(trip.issue.body))

\* ------------------------------------------------------------ claims C31..C40

\* After the step the file and the snapshot of n equal the remote record.
UpToDate(n) ==
  /\ n \in FileNums(files')
  /\ hasOriginalIssue(originals', n)
  /\ EqualIgnoringSyncedAt(findIssueByNumber(files', n).Issue, RemoteIssue(remote', n))
  /\ EqualIgnoringSyncedAt(readOriginalIssue(originals', n), RemoteIssue(remote', n))

\* C31: an unscoped Pull that returns without error and finds the local file
\* of a record equal to its snapshot while the remote record differs from the
\* snapshot leaves file and snapshot equal to the remote record.
C31_RemoteChangeNotHidden ==
  [][(PullStep /\ ~last'.err /\ last'.opts[1] # "args") =>
       \A n \in PermIds : OnlyRemoteChanged(n) => UpToDate(n)]_vars

\* C32: when a Push ends, in whatever way, the snapshot of every id whose
\* remote record it changed by a state call or an edit equals the remote
\* record in the fields the conflict check of the next Push compares.
C32_SnapshotFollowsRemoteWrite ==
  [][PushStep =>
       \A n \in PermIds \cap RemoteNums(remote) :
         remote'[n] # remote[n] =>
           /\ hasOriginalIssue(originals', n)
           /\ EqualForConflictCheck(RemoteIssue(remote', n),
                                    readOriginalIssue(originals', n))]_vars

\* The temporary ids that a local record carried before the step and none
\* carries after it.
GoneTemps == (TempIds \cap FileNums(files)) \ FileNums(files')

\* C33: whenever a command of the program makes a temporary id disappear
\* from the local records (the operator's deletion of a file is none), no
\* local record refers to that id afterwards, in a text or in a structured
\* field.
C33_NoReferenceToGoneTemporaryId ==
  [][last'.cmd # "remove" =>
       \A t \in GoneTemps :
         \A f \in files' : ~MentionsId(Parse(f.content), t)]_vars

\* C34: a Push, during which nobody else touches the service, reports none
\* of the records it promoted as a conflict.
C34_PromotedRecordNoConflict ==
  [][PushStep =>
       \A t \in DOMAIN last'.mapping :
         last'.mapping[t] \notin last'.conflicts]_vars

\* Two Pushes in a row with nothing in between: the first, no dry run, ended
\* without error and without conflict; the second has the same scope, or
\* follows an unscoped one, and its records name the same labels and
\* milestones.
SecondPush ==
  /\ PushStep
  /\ last.cmd = "push"
  /\ ~last.opts[2]
  /\ ~last.err
  /\ last.conflicts = {}
  /\ last.opts[1] \in {"", last'.opts[1]}
  /\ catalog'.rep.needed = catalog.rep.needed

\* What the second Push may not do: a create, edit, state or relationship
\* call, a label or milestone creation, a change of the service, a write of
\* a file or a snapshot.
PushDidNothing ==
  /\ last'.calls = {}
  /\ last'.written = {}
  /\ last'.mapping = NoMapping
  /\ catalog'.rep.calls = {}
  /\ remote' = remote
  /\ catalog'.remoteLabels = catalog.remoteLabels
  /\ catalog'.remoteMilestones = catalog.remoteMilestones
  /\ files' = files
  /\ originals' = originals

PushedClean(n) ==
  /\ last.cmd = "push"
  /\ ~last.err
  /\ n \in last.written
  /\ n \notin last.conflicts
  /\ \E c \in last.calls : c[1] \in {"edit", "close", "reopen"} /\ c[2] = n
  /\ \A w \in last.warnings : w[2] # n

\* The file of n holds the same title, body, labels and state before and
\* after the step.
PushedFieldsIntact(n) ==
  LET before == Normalize(findIssueByNumber(files, n).Issue)
      after == Normalize(findIssueByNumber(files', n).Issue)
  IN  /\ n \in FileNums(files')
      /\ after.title = before.title
      /\ after.body = before.body
      /\ after.labels = before.labels
      /\ after.state = before.state

SyncPushDone ==
  /\ last.cmd = "push"
  /\ last.opts = <<"", FALSE>>
  /\ ~last.err

SyncPull ==
  /\ PullStep
  /\ SyncPushDone
  /\ last'.opts[1] \in {"plain", "full", "all", LabelMode}
  /\ last'.opts[2]
  /\ last'.opts[3] = ""

\* The Push just ended skipped n: it reported a conflict for it, or a remote
\* call for it failed with a warning.
PushSkipped(n) ==
  \/ n \in last.conflicts
  \/ \E w \in last.warnings : w[2] = n

\* C37: the Pull of a sync leaves the local file of every record its Push
\* skipped, because of a conflict or of a failed remote call, as it was.
C37_SyncKeepsUndeliveredEdit ==
  [][SyncPull =>
       \A n \in PermIds :
         (PushSkipped(n) /\ LocalChanged(n)) =>
           FilesOf(files', n) = FilesOf(files, n)]_vars

\* The same for a Pull without Force after the Push of a sync.
C37_PullWithoutForceKeeps ==
  [][(PullStep /\ SyncPushDone /\ ~last'.opts[2]) =>
       \A n \in PermIds :
         (PushSkipped(n) /\ LocalChanged(n)) =>
           FilesOf(files', n) = FilesOf(files, n)]_vars

\* The Push of a sync has skipped a locally edited record over a conflict.
C37_SkippedByConflict ==
  /\ SyncPushDone
  /\ \E n \in last.conflicts : LocalChanged(n)


\* A process is where its command creates, renames or overwrites files of
\* the mirror, the snapshot directory or the control directory.
Writing(p) == pc[p] \in {"body", "write"}

\* C38: whatever the command, a process writes the local store only while it
\* holds the lock.
C38_WritesOnlyUnderLock ==
  \A p \in Procs : Writing(p) => lockHolder = p

\* The same for the commands that call lock.Acquire.
C38_LockingCommandsWriteUnderLock ==
  \A p \in Procs : pc[p] = "body" => lockHolder = p

\* Edit renames a file while the other process holds the lock inside Pull.
C38_EditBesidePull ==
  \E p, q \in Procs :
    /\ pc[p] = "write"
    /\ cmdOf[p] = "edit"
    /\ pc[q] = "body"
    /\ cmdOf[q] = "pull"
    /\ lockHolder = q


\* Pull has returned: with the listing's error, by the fast path, with an
\* error of the loop, or at its end.
PullReturned == fetch.main \in {"failed", "fast", "done"}

\* No task is before its send.
TasksAtRest ==
  /\ fetch.list # "running"
  /\ fetch.batch # "running"
  /\ \A t \in RefreshNames : fetch.refresh[t] # "running"

\* C39: on whichever path Pull returns, each fetch task and each
\* catalog-refresh task that was started gets past the send of its result.
C39_TasksTerminate == PullReturned ~> TasksAtRest

\* Pull took the fast path and the batched lookup's result, which nobody
\* receives, sits in the channel's buffer with the task ended.
C39_Witness ==
  /\ fetch.main = "fast"
  /\ fetch.batch = "done"
  /\ fetch.batchCh # <<>>
  /\ fetch.list = "done"

\* Pull went through to its end with all three refresh results received.
C39_AllReceived ==
  /\ fetch.main = "done"
  /\ fetch.received = {"list", "batch"} \cup RefreshNames
  /\ TasksAtRest


\* C40: with remote equal to base the merge succeeds and its result is
\* strictly equal to local; with local equal to base it succeeds and its
\* result is strictly equal to remote.
C40_OneSidedMergeReturnsThatSide ==
  merge.done =>
    /\ merge.remote = merge.base =>
         /\ merge.result.OK
         /\ EqualIgnoringSyncedAtFull(merge.result.Merged, merge.local)
    /\ merge.local = merge.base =>
         /\ merge.result.OK
         /\ EqualIgnoringSyncedAtFull(merge.result.Merged, merge.remote)

\* The half of it for a change on the remote side only.
C40_RemoteOnly ==
  (merge.done /\ merge.local = merge.base) =>
    /\ merge.result.OK
    /\ EqualIgnoringSyncedAtFull(merge.result.Merged, merge.remote)

\* The half for a change on the local side only, the state reason aside.
C40_LocalOnlyButStateReason ==
  (merge.done /\ merge.remote = merge.base) =>
    /\ merge.result.OK
    /\ EqualIgnoringSyncedAtFull(
         [merge.result.Merged EXCEPT !.stateReason = merge.local.stateReason],
         merge.local)

\* Local closed the issue as completed, remote is the base: the merged issue
\* is closed with the reason of the base.
C40_ClosedLocally ==
  /\ merge.done
  /\ merge.remote = merge.base
  /\ merge.local.state = "closed"
  /\ merge.local.stateReason = "completed"
  /\ merge.result.OK
  /\ merge.result.Merged.state = "closed"
  /\ merge.result.Merged.stateReason = ""

============================================================================
